---------------------------- MODULE Spec2Model ----------------------------
(***************************************************************************)
(* A model of github.com/nigeltao/etc2: the PKM container (lib/pkm) and    *)
(* the block-stream driver of the ETC encoder (lib/etc2, Encode).          *)
(*                                                                         *)
(* Conventions.  A Go uint64 is a tuple of four 16-bit limbs, least        *)
(* significant first, so that shifts and truncations are computed rather   *)
(* than assumed.  A Go byte array is a function on 0..n-1; a byte slice    *)
(* handed to an io.Writer is a sequence.  Go's nil error is "nil".         *)
(***************************************************************************)
EXTENDS Integers, Sequences, FiniteSets, TLC

(***************************************************************************)
(* Bounds of the model.                                                    *)
(***************************************************************************)
MaxSmallDim == 5

MaxFormatByte == 13

(***************************************************************************)
(* Integer helpers for Go's bit operators.                                 *)
(***************************************************************************)
Min2(a, b) == IF a < b THEN a ELSE b

RECURSIVE BitAnd(_, _)
BitAnd(a, b) ==
  IF a = 0 \/ b = 0 THEN 0
  ELSE ((a % 2) * (b % 2)) + 2 * BitAnd(a \div 2, b \div 2)

\* Go's a &^ b
BitAndNot(a, b) == a - BitAnd(a, b)

BitOr(a, b) == a + b - BitAnd(a, b)

\* uint8(v): truncation to the low 8 bits
U8(v) == v % 256

(***************************************************************************)
(* lib/etc2: Format and its methods (the flag-encoded uint8 Format).       *)
(***************************************************************************)
FormatInvalid == 0
FormatETC1S == 64
FormatETC1 == 128
FormatETC2RGB == 192
FormatETC2RGBA1 == 193
FormatETC2RGBA8 == 194
FormatETC2SRGB == 196
FormatETC2SRGBA1 == 197
FormatETC2SRGBA8 == 198
FormatETC2R11Unsigned == 200
FormatETC2R11Signed == 216
FormatETC2RG11Unsigned == 232
FormatETC2RG11Signed == 248

formatBit1BitAlpha == 1
formatBit8BitAlpha == 2
formatBitSRGBColorSpace == 4
formatBitDepth11 == 8
formatBitDepth11Signed == 16
formatBitDepth11TwoChannel == 32
formatBitsETC1S == 64
formatBitsETC1 == 128
formatBitsETC2 == 192

\* The thirteen declared constants less FormatInvalid and, for the eleven
\* sub-formats of the PKM enum, less FormatETC1S.
DefinedFormats ==
  { FormatETC1S, FormatETC1,
    FormatETC2RGB, FormatETC2RGBA1, FormatETC2RGBA8,
    FormatETC2SRGB, FormatETC2SRGBA1, FormatETC2SRGBA8,
    FormatETC2R11Unsigned, FormatETC2R11Signed,
    FormatETC2RG11Unsigned, FormatETC2RG11Signed }

BytesPerBlock(f) ==
  IF f = FormatInvalid THEN 0
  ELSE IF BitAnd(f, BitOr(formatBit8BitAlpha, formatBitDepth11TwoChannel)) # 0
       THEN 16
       ELSE 8

ETCVersion(f) ==
  IF f < formatBitsETC1S THEN 0
  ELSE IF f < formatBitsETC2 THEN 1
  ELSE 2

ColorModel(f) ==
  IF f = FormatInvalid THEN "nil"
  ELSE IF BitAnd(f, formatBit8BitAlpha) # 0 THEN "NRGBAModel"
  ELSE IF BitAnd(f, formatBitDepth11) = 0 THEN "RGBAModel"
  ELSE IF BitAnd(f, formatBitDepth11TwoChannel) # 0 THEN "RGBA64Model"
  ELSE "Gray16Model"

\* (v + 3) &^ 3
RoundUp4(v) == BitAndNot(v + 3, 3)

\* image.Rect(0, 0, w, h) for w, h >= 0
Rect(w, h) == [MinX |-> 0, MinY |-> 0, MaxX |-> w, MaxY |-> h]

Dx(r) == r.MaxX - r.MinX

Dy(r) == r.MaxY - r.MinY

\* Format.NewImage: the concrete image type and its bounds, or an error.
NewImage(f, width, height) ==
  IF (width < 0) \/ (width >= 65536) \/ (height < 0) \/ (height >= 65536)
  THEN [err |-> "ErrBadArgument", type |-> "nil", rect |-> Rect(0, 0)]
  ELSE LET r == Rect(RoundUp4(width), RoundUp4(height)) IN
       IF f = FormatInvalid
       THEN [err |-> "ErrBadArgument", type |-> "nil", rect |-> Rect(0, 0)]
       ELSE IF BitAnd(f, formatBit8BitAlpha) # 0
       THEN [err |-> "nil", type |-> "NRGBA", rect |-> r]
       ELSE IF BitAnd(f, formatBitDepth11) = 0
       THEN [err |-> "nil", type |-> "RGBA", rect |-> r]
       ELSE IF BitAnd(f, formatBitDepth11TwoChannel) # 0
       THEN [err |-> "nil", type |-> "RGBA64", rect |-> r]
       ELSE [err |-> "nil", type |-> "Gray16", rect |-> r]

PKMFormat_Swapped(f) ==
  CASE f \in {FormatETC1S, FormatETC1} -> 0
    [] f = FormatETC2RGB -> 1
    [] f = FormatETC2RGBA1 -> 3
    [] f = FormatETC2RGBA8 -> 4
    [] f = FormatETC2SRGB -> 9
    [] f = FormatETC2SRGBA1 -> 11
    [] f = FormatETC2SRGBA8 -> 10
    [] f = FormatETC2R11Unsigned -> 5
    [] f = FormatETC2R11Signed -> 7
    [] f = FormatETC2RG11Unsigned -> 6
    [] f = FormatETC2RG11Signed -> 8
    [] OTHER -> 0

PKMFormat(f) ==
  CASE f \in {FormatETC1S, FormatETC1} -> 0
    [] f = FormatETC2RGB -> 1
    [] f = FormatETC2RGBA1 -> 4
    [] f = FormatETC2RGBA8 -> 3
    [] f = FormatETC2SRGB -> 9
    [] f = FormatETC2SRGBA1 -> 11
    [] f = FormatETC2SRGBA8 -> 10
    [] f = FormatETC2R11Unsigned -> 5
    [] f = FormatETC2R11Signed -> 7
    [] f = FormatETC2RG11Unsigned -> 6
    [] f = FormatETC2RG11Signed -> 8
    [] OTHER -> 0


(***************************************************************************)
(* lib/pkm: the 16-byte header.                                            *)
(***************************************************************************)
\* "PKM "
Magic == <<80, 75, 77, 32>>

\* pkmToETC2Formats, indexed by the PKM format byte 0..11
pkmToETC2Formats ==
  [b \in 0..11 |->
     CASE b = 0 -> FormatETC1
       [] b = 1 -> FormatETC2RGB
       [] b = 2 -> FormatInvalid
       [] b = 3 -> FormatETC2RGBA8
       [] b = 4 -> FormatETC2RGBA1
       [] b = 5 -> FormatETC2R11Unsigned
       [] b = 6 -> FormatETC2RG11Unsigned
       [] b = 7 -> FormatETC2R11Signed
       [] b = 8 -> FormatETC2RG11Signed
       [] b = 9 -> FormatETC2SRGB
       [] b = 10 -> FormatETC2SRGBA8
       [] b = 11 -> FormatETC2SRGBA1]

\* The format pkm.Encode uses: options may be nil (<<>>) or hold a Format;
\* a zero Format means the default.
EffectiveFormat(options) ==
  IF (options # <<>>) /\ (options[1] # 0) THEN options[1] ELSE FormatETC2RGB

HeaderBytes_DimsSwapped(f, version, bW, bH) ==
  LET roundedUpW == RoundUp4(bW)
      roundedUpH == RoundUp4(bH)
  IN  Magic \o
      << BitOr(48, U8(version)), 48, 0, PKMFormat(f),
         U8(bW \div 256), U8(bW),
         U8(bH \div 256), U8(bH),
         U8(roundedUpW \div 256), U8(roundedUpW),
         U8(roundedUpH \div 256), U8(roundedUpH) >>

\* The header pkm.Encode builds in buf[0..15].
HeaderBytes(f, version, bW, bH) ==
  LET roundedUpW == RoundUp4(bW)
      roundedUpH == RoundUp4(bH)
  IN  Magic \o
      << BitOr(48, U8(version)), 48, 0, PKMFormat(f),
         U8(roundedUpW \div 256), U8(roundedUpW),
         U8(roundedUpH \div 256), U8(roundedUpH),
         U8(bW \div 256), U8(bW),
         U8(bH \div 256), U8(bH) >>

NoConfig == [format |-> 0, ColorModel |-> "nil", Width |-> 0, Height |-> 0]

\* io.ReadFull(r, buf[:16]) on a reader holding the bytes r
ReadFullErr(r, n) ==
  IF Len(r) >= n THEN "nil"
  ELSE IF Len(r) = 0 THEN "io.EOF"
  ELSE "io.ErrUnexpectedEOF"

DimsConsistent_Lax(width, roundedUpWidth, height, roundedUpHeight) ==
  (roundedUpWidth >= width) /\ (roundedUpHeight >= height)

DimsConsistent(width, roundedUpWidth, height, roundedUpHeight) ==
  ~ ((RoundUp4(width) # roundedUpWidth) \/ (RoundUp4(height) # roundedUpHeight))

VersionAgrees_Unchecked(retFormat, etcVersion) ==
  ETCVersion(retFormat) # 0

VersionAgrees(retFormat, etcVersion) ==
  ~ (ETCVersion(retFormat) # etcVersion)

\* decodeConfig: r is the byte sequence the reader yields; buf[k] is r[k+1].
decodeConfig(r) ==
  IF ReadFullErr(r, 16) # "nil"
  THEN [err |-> ReadFullErr(r, 16), config |-> NoConfig]
  ELSE IF (r[1] # Magic[1]) \/ (r[2] # Magic[2]) \/ (r[3] # Magic[3]) \/
          (r[4] # Magic[4]) \/ (r[6] # 48) \/ (r[7] # 0)
  THEN [err |-> "ErrNotAPKMFile", config |-> NoConfig]
  ELSE IF r[5] \notin {49, 50}
  THEN [err |-> "ErrNotAPKMFile", config |-> NoConfig]
  ELSE
    LET etcVersion == BitAnd(r[5], 3)
        retFormat == IF r[8] < 12 THEN pkmToETC2Formats[r[8]] ELSE 0
        roundedUpWidth == (r[9] * 256) + r[10]
        roundedUpHeight == (r[11] * 256) + r[12]
        width == (r[13] * 256) + r[14]
        height == (r[15] * 256) + r[16]
    IN  IF ~ VersionAgrees(retFormat, etcVersion)
        THEN [err |-> "ErrNotAPKMFile", config |-> NoConfig]
        ELSE IF ~ DimsConsistent(width, roundedUpWidth, height, roundedUpHeight)
        THEN [err |-> "ErrNotAPKMFile", config |-> NoConfig]
        ELSE [err |-> "nil",
              config |-> [format |-> retFormat,
                          ColorModel |-> ColorModel(retFormat),
                          Width |-> width, Height |-> height]]

\* Format.Decode(m, r, numBlocksX, numBlocksY): reads one codeword of
\* BytesPerBlock(f) bytes per block from r and fails on a short stream.
FormatDecode(f, r, numBlocksX, numBlocksY) ==
  IF Len(r) >= numBlocksX * numBlocksY * BytesPerBlock(f)
  THEN "nil"
  ELSE "io.ErrUnexpectedEOF"

\* Rectangle.Intersect of Rect(0,0,w,h) with the image's own rectangle,
\* as SubImage applies it: an empty intersection is the zero rectangle.
SubImageRect_Uncropped(rect, w, h) == rect

SubImageRect(rect, w, h) ==
  LET x1 == Min2(w, rect.MaxX)
      y1 == Min2(h, rect.MaxY)
  IN  IF (x1 <= 0) \/ (y1 <= 0) THEN Rect(0, 0) ELSE Rect(x1, y1)

NoImage == [type |-> "nil", rect |-> Rect(0, 0), full |-> Rect(0, 0)]

\* pkm.Decode on the byte sequence r: the error, and the image returned
\* (its type, its bounds, and the bounds of the image NewImage allocated).
Decode(r) ==
  LET c == decodeConfig(r) IN
  IF c.err # "nil"
  THEN [err |-> c.err, format |-> 0, config |-> c.config, image |-> NoImage]
  ELSE
    LET format == c.config.format
        m == NewImage(format, c.config.Width, c.config.Height)
    IN  IF m.err # "nil"
        THEN [err |-> m.err, format |-> format, config |-> c.config,
              image |-> NoImage]
        ELSE
          LET rest == SubSeq(r, 17, Len(r))
              derr == FormatDecode(format, rest, Dx(m.rect) \div 4, Dy(m.rect) \div 4)
          IN  IF derr # "nil"
              THEN [err |-> derr, format |-> format, config |-> c.config,
                    image |-> NoImage]
              ELSE [err |-> "nil", format |-> format, config |-> c.config,
                    image |-> [type |-> m.type,
                               rect |-> SubImageRect(m.rect, c.config.Width,
                                                     c.config.Height),
                               full |-> m.rect]]


(***************************************************************************)
(* lib/etc2: the source image and the pixel extractor.                     *)
(***************************************************************************)
\* The contents of the *image.NRGBA source at (x, y): R, G, B, A.
SrcPix(x, y) ==
  << ((x * 37) + (y * 11) + 5) % 256,
     ((x * 3) + (y * 101) + 1) % 256,
     ((x + y) * 7) % 256,
     IF (x + (2 * y)) % 5 = 0 THEN 0 ELSE 255 >>

\* (*image.NRGBA).NRGBAAt on an image whose bounds are (0,0)-(bW,bH):
\* the zero colour outside the bounds.
NRGBAAt(bW, bH, x, y) ==
  IF (0 <= x) /\ (x < bW) /\ (0 <= y) /\ (y < bH)
  THEN SrcPix(x, y)
  ELSE <<0, 0, 0, 0>>

\* ((graySum/2) + R*0x101*grayR + G*0x101*grayG + B*0x101*grayB) / graySum,
\* in uint64.  With s = R*grayR + G*grayG + B*grayB = q*graySum + r the
\* quotient is q*0x101 + (r*0x101 + graySum/2) / graySum, which keeps every
\* intermediate below 2^31.
Gray16(c) ==
  LET s == (c[1] * 212656) + (c[2] * 715158) + (c[3] * 72186)
      q == s \div 1000000
      r == s % 1000000
  IN  (q * 257) + (((r * 257) + 500000) \div 1000000)

SampleX_Unclamped(mX1, blockX, x) == blockX + x

\* min(mX1, blockX+x), and the same for y
SampleX(mX1, blockX, x) == Min2(mX1, blockX + x)

\* The colour branch leaves the alpha byte of every pixel as it was.
Layout_KeepsAlpha(pixels, f, cs) ==
  IF BitAnd(f, formatBitDepth11) # 0
  THEN IF BitAnd(f, formatBitDepth11TwoChannel) # 0
       THEN [k \in 0..63 |->
               IF k < 32 THEN cs[k \div 2][1] ELSE cs[(k - 32) \div 2][2]]
       ELSE [k \in 0..31 |->
               IF k % 2 = 0
               THEN U8(Gray16(cs[k \div 2]) \div 256)
               ELSE U8(Gray16(cs[k \div 2]))] @@ pixels
  ELSE [k \in 0..63 |->
          IF k % 4 = 3 THEN pixels[k] ELSE cs[k \div 4][(k % 4) + 1]]

\* The bytes the closure stores in pixels for the sixteen colours cs
\* sampled at (x, y) = (p % 4, p \div 4).
Layout(pixels, f, cs) ==
  IF BitAnd(f, formatBitDepth11) # 0
  THEN IF BitAnd(f, formatBitDepth11TwoChannel) # 0
       THEN [k \in 0..63 |->
               IF k < 32 THEN cs[k \div 2][1] ELSE cs[(k - 32) \div 2][2]]
       ELSE [k \in 0..31 |->
               IF k % 2 = 0
               THEN U8(Gray16(cs[k \div 2]) \div 256)
               ELSE U8(Gray16(cs[k \div 2]))] @@ pixels
  ELSE [k \in 0..63 |-> cs[k \div 4][(k % 4) + 1]]

\* The closure makeExtract returns for an *image.NRGBA source, applied to
\* (blockX, blockY): the new contents of e.pixels.
extract(pixels, f, bW, bH, blockX, blockY) ==
  LET mX1 == bW - 1
      mY1 == bH - 1
  IN  CHOOSE px \in
        { Layout(pixels, f, cs) :
            cs \in { [p \in 0..15 |->
                        NRGBAAt(bW, bH, SampleX(mX1, blockX, p % 4),
                                SampleX(mY1, blockY, p \div 4))] } } : TRUE

(***************************************************************************)
(* lib/etc2: the sub-encoders.  Each returns one 64-bit codeword that is   *)
(* a function of e.pixels and of its arguments; the search that picks it   *)
(* is not expanded here, its result is a digest of the block.              *)
(***************************************************************************)
RECURSIVE WeightedSum(_, _, _, _)
WeightedSum(pixels, lo, hi, k) ==
  IF lo > hi THEN 0
  ELSE (pixels[lo] * (lo + (17 * k) + 1)) + WeightedSum(pixels, lo + 4, hi, k)

\* Limb k digests the bytes lo + (k - 1), lo + (k - 1) + 4, ... up to hi.
Codeword(pixels, lo, hi, salt) ==
  [k \in 1..4 |->
     (WeightedSum(pixels, lo + (k - 1), hi, k) + (salt * 257) + (k * 4099)) % 65536]

encode11(pixels, pixOffset, signed) ==
  Codeword(pixels, pixOffset, pixOffset + 31, IF signed THEN 11 ELSE 12)

encodeAlpha(pixels) == Codeword(pixels, 0, 63, 8)

encodeColor(pixels, f) == Codeword(pixels, 0, 63, f)

\* uint8(x >> s) for a shift s that is a multiple of 8
ShiftU8(x, s) == (x[(s \div 16) + 1] \div (IF s % 16 = 0 THEN 1 ELSE 256)) % 256

writeU64BE_LittleEndian(x) ==
  << ShiftU8(x, 0), ShiftU8(x, 8), ShiftU8(x, 16), ShiftU8(x, 24),
     ShiftU8(x, 32), ShiftU8(x, 40), ShiftU8(x, 48), ShiftU8(x, 56) >>

\* The eight bytes writeU64BE stores at buf[0..7].
writeU64BE(x) ==
  << ShiftU8(x, 56), ShiftU8(x, 48), ShiftU8(x, 40), ShiftU8(x, 32),
     ShiftU8(x, 24), ShiftU8(x, 16), ShiftU8(x, 8), ShiftU8(x, 0) >>

encoderBufferSize == 4096 - 64 - 64

\* The bytes one iteration of Encode's loop body stores at e.buf[bufJ:].
BlockBytes(pixels, f) ==
  IF BitAnd(f, formatBitDepth11) # 0
  THEN LET signed == BitAnd(f, formatBitDepth11Signed) # 0 IN
       IF BitAnd(f, formatBitDepth11TwoChannel) # 0
       THEN writeU64BE(encode11(pixels, 0, signed)) \o
            writeU64BE(encode11(pixels, 32, signed))
       ELSE writeU64BE(encode11(pixels, 0, signed))
  ELSE IF f = FormatETC2RGBA8
  THEN writeU64BE(encodeAlpha(pixels)) \o writeU64BE(encodeColor(pixels, f))
  ELSE writeU64BE(encodeColor(pixels, f))

\* Storing the bytes bs at buf[at:] of the fixed-size array buf.
RECURSIVE StoreFrom(_, _, _, _)
StoreFrom(buf, at, bs, i) ==
  IF i > Len(bs) THEN buf
  ELSE StoreFrom([buf EXCEPT ![at + (i - 1)] = bs[i]], at, bs, i + 1)

Store(buf, at, bs) == StoreFrom(buf, at, bs, 1)

\* The slice buf[:n] as handed to dst.Write.
Slice(buf, n) == [i \in 1..n |-> buf[i - 1]]

FlushDue_Late(bufJ) == bufJ > encoderBufferSize

\* if bufJ >= encoderBufferSize
FlushDue(bufJ) == bufJ >= encoderBufferSize

FinalDue_Always(bufJ) == bufJ >= 0

\* if bufJ > 0
FinalDue(bufJ) == bufJ > 0

TooLarge_OffByFour(bW, bH) == (bW > 65536) \/ (bH > 65536)

\* (bW > 65532) || (bH > 65532)
TooLarge(bW, bH) == (bW > 65532) \/ (bH > 65532)

Aborts_Ignored(err) == FALSE

\* if _, err := dst.Write(...); err != nil { return err }
Aborts(err) == err # "nil"


(***************************************************************************)
(* The state: one call of etc2.Encode or of pkm.Encode (which calls        *)
(* etc2.Encode), the writes the sink has seen, and, after a successful     *)
(* pkm.Encode, pkm.Decode applied to the bytes the sink holds.             *)
(***************************************************************************)
VARIABLES
  call,     \* the arguments: api, srcNil, dstNil, W, H (src.Bounds()), f, options
  pc,       \* where the call is
  f,        \* etc2.Encode's f
  blockX,   \* Encode's loop variables
  blockY,
  bufJ,     \* the fill index of e.buf
  buf,      \* e.buf
  pixels,   \* e.pixels
  writes,   \* every Write issued to the sink: who issued it, the slice, its result
  nBlocks,  \* the number of blocks encoded so far
  ret,      \* the error the outermost call returned; "" while it runs
  dec,      \* the result of pkm.Decode, <<>> before it ran
  hdr       \* the header handed to decodeConfig (the header specification)

vars == <<call, pc, f, blockX, blockY, bufJ, buf, pixels, writes, nBlocks, ret, dec, hdr>>

\* The errors a sink's Write may return.
WriteErrors == {"EIO", "EPIPE"}

WriteOutcomes == {"nil"} \cup WriteErrors

UndefinedFormats == {FormatInvalid, 63, 65, 195, 255}

AllFormats == DefinedFormats \cup UndefinedFormats

\* The largest source whose blocks fill e.buf exactly once, one block high.
FullW(bpb) == 4 * (encoderBufferSize \div bpb)

SmallDims == (0..MaxSmallDim) \X {0, 1, MaxSmallDim}

EdgeDims ==
  { <<65532, 0>>, <<0, 65532>>, <<65533, 0>>, <<0, 65533>>,
    <<65533, 4>>, <<4, 65533>>, <<65536, 65536>> }

\* Sources large enough for one or more flushes of e.buf, each paired with
\* a format of 8 or of 16 bytes per block, and the 21x32 source of the
\* end-to-end scenario.
BigInputs ==
  { <<FormatETC2RGB, 21, 32>>,
    <<FormatETC1, 21, 32>>,
    <<FormatETC2RGB, FullW(8), 1>>,
    <<FormatETC2RGBA1, FullW(8) + 1, MaxSmallDim>>,
    <<FormatETC2R11Unsigned, FullW(8) + 1, 1>>,
    <<FormatETC2SRGBA8, FullW(16), 1>>,
    <<FormatETC2RG11Signed, FullW(16) + 1, MaxSmallDim>> }

Etc2Calls ==
  { [api |-> "etc2.Encode", srcNil |-> FALSE, dstNil |-> FALSE,
     W |-> d[1], H |-> d[2], f |-> fmt, options |-> <<>>] :
       d \in SmallDims \cup EdgeDims, fmt \in AllFormats }
  \cup
  { [api |-> "etc2.Encode", srcNil |-> FALSE, dstNil |-> FALSE,
     W |-> b[2], H |-> b[3], f |-> b[1], options |-> <<>>] : b \in BigInputs }
  \cup
  { [api |-> "etc2.Encode", srcNil |-> n[1], dstNil |-> n[2],
     W |-> 0, H |-> 0, f |-> fmt, options |-> <<>>] :
       n \in {<<TRUE, FALSE>>, <<FALSE, TRUE>>, <<TRUE, TRUE>>},
       fmt \in {FormatETC2RGB, FormatInvalid} }

PkmCalls ==
  { [api |-> "pkm.Encode", srcNil |-> FALSE, dstNil |-> FALSE,
     W |-> d[1], H |-> d[2], f |-> 0, options |-> o] :
       d \in SmallDims \cup EdgeDims,
       o \in {<<>>} \cup { <<fmt>> : fmt \in AllFormats } }
  \cup
  { [api |-> "pkm.Encode", srcNil |-> FALSE, dstNil |-> FALSE,
     W |-> b[2], H |-> b[3], f |-> 0, options |-> <<b[1]>>] : b \in BigInputs }
  \cup
  { [api |-> "pkm.Encode", srcNil |-> TRUE, dstNil |-> FALSE,
     W |-> 0, H |-> 0, f |-> 0, options |-> o] :
       o \in {<<>>, <<FormatETC2RGB>>, <<FormatInvalid>>, <<63>>} }

ZeroBuf == [i \in 0..(encoderBufferSize - 1) |-> 0]

ZeroPixels == [k \in 0..63 |-> 0]

Init ==
  /\ call \in Etc2Calls \cup PkmCalls
  /\ pc = call.api
  /\ f = call.f
  /\ blockX = 0
  /\ blockY = 0
  /\ bufJ = 0
  /\ buf = ZeroBuf
  /\ pixels = ZeroPixels
  /\ writes = <<>>
  /\ nBlocks = 0
  /\ ret = ""
  /\ dec = <<>>
  /\ hdr = <<>>

Return(e) == /\ pc' = "done"
             /\ ret' = e

\* pkm.Encode up to its w.Write: the size and format checks.  Calling
\* Bounds on a nil image.Image is a run-time panic.
PkmEncode ==
  /\ pc = "pkm.Encode"
  /\ IF call.srcNil
     THEN Return("panic") /\ UNCHANGED f
     ELSE IF TooLarge(call.W, call.H)
     THEN Return("pkm.ErrImageIsTooLarge") /\ UNCHANGED f
     ELSE IF ETCVersion(EffectiveFormat(call.options)) = 0
     THEN Return("pkm.ErrBadArgument") /\ UNCHANGED f
     ELSE /\ f' = EffectiveFormat(call.options)
          /\ pc' = "pkm.Write"
          /\ UNCHANGED ret
  /\ UNCHANGED <<call, blockX, blockY, bufJ, buf, pixels, writes, nBlocks, dec, hdr>>

\* pkm.Encode's w.Write(buf[:]) of the header, then the call of etc2.Encode.
PkmWriteHeader ==
  /\ pc = "pkm.Write"
  /\ \E err \in WriteOutcomes :
       /\ writes' = Append(writes,
                           [by |-> "pkm", err |-> err,
                            data |-> HeaderBytes(f, ETCVersion(f), call.W, call.H)])
       /\ IF Aborts(err)
          THEN Return(err)
          ELSE pc' = "etc2.Encode" /\ UNCHANGED ret
  /\ UNCHANGED <<call, f, blockX, blockY, bufJ, buf, pixels, nBlocks, dec, hdr>>

\* etc2.Encode up to its loop: the argument checks, the sRGB bit stripped,
\* the size check, a fresh encoder.
Etc2Encode ==
  /\ pc = "etc2.Encode"
  /\ IF call.dstNil \/ call.srcNil \/ (ETCVersion(f) = 0)
     THEN Return("ErrBadArgument") /\ UNCHANGED f
     ELSE IF TooLarge(call.W, call.H)
     THEN Return("ErrImageIsTooLarge") /\ UNCHANGED f
     ELSE /\ f' = BitAndNot(f, formatBitSRGBColorSpace)
          /\ pc' = "loop"
          /\ UNCHANGED ret
  /\ blockX' = 0
  /\ blockY' = 0
  /\ bufJ' = 0
  /\ buf' = ZeroBuf
  /\ pixels' = ZeroPixels
  /\ UNCHANGED <<call, writes, nBlocks, dec, hdr>>

\* One iteration of the inner loop's body up to the flush test, on the
\* loop state st: extract, the sub-encoders, the bytes stored at
\* e.buf[bufJ:].  Storing past the end of e.buf is a run-time panic.
BlockStep(fmt, W, H, st) ==
  LET px == extract(st.pixels, fmt, W, H, st.blockX, st.blockY)
      bs == BlockBytes(px, fmt)
  IN  IF st.bufJ + Len(bs) > encoderBufferSize
      THEN [st EXCEPT !.pixels = px, !.at = "panic"]
      ELSE [st EXCEPT !.pixels = px,
                      !.buf = Store(st.buf, st.bufJ, bs),
                      !.bufJ = st.bufJ + Len(bs),
                      !.nBlocks = st.nBlocks + 1,
                      !.at = IF FlushDue(st.bufJ + Len(bs)) THEN "flush" ELSE "loop"]

\* One step of the two nested loops on the loop state st: the outer loop's
\* end (at = "final"), the inner loop's end and the next block-row, or one
\* block, after which a flush may be due (at = "flush", with blockX and
\* blockY those of the block just stored).  A source of no width has only
\* empty rows.  A state that has left the loop stays as it is.
Advance(fmt, W, H, st) ==
  IF st.at # "loop" THEN st
  ELSE IF st.blockY >= H THEN [st EXCEPT !.at = "final"]
  ELSE IF st.blockX >= W
  THEN [st EXCEPT !.blockX = 0,
                  !.blockY = IF W <= 0 THEN RoundUp4(H) ELSE st.blockY + 4]
  ELSE LET nx == BlockStep(fmt, W, H, st) IN
       IF nx.at = "loop" THEN [nx EXCEPT !.blockX = nx.blockX + 4] ELSE nx

\* n steps of the loops, by halving.
RECURSIVE RunLoop(_, _, _, _, _)
RunLoop(fmt, W, H, st, n) ==
  IF n = 1 THEN Advance(fmt, W, H, st)
  ELSE CHOOSE r \in { RunLoop(fmt, W, H, mid, n - (n \div 2)) :
                         mid \in { RunLoop(fmt, W, H, st, n \div 2) } } : TRUE

\* The number of loop steps taken between two looks at the encoder: enough
\* for a whole buffer of 8-byte blocks.
LoopSteps == 512

\* Encode's loops between two writes to the sink: blocks are encoded into
\* e.buf until it is full or the source is exhausted.
EncodeBlocks ==
  /\ pc = "loop"
  /\ \E nx \in { RunLoop(f, call.W, call.H,
                         [blockX |-> blockX, blockY |-> blockY, bufJ |-> bufJ,
                          buf |-> buf, pixels |-> pixels, nBlocks |-> nBlocks,
                          at |-> "loop"], LoopSteps) } :
       /\ blockX' = nx.blockX
       /\ blockY' = nx.blockY
       /\ bufJ' = nx.bufJ
       /\ buf' = nx.buf
       /\ pixels' = nx.pixels
       /\ nBlocks' = nx.nBlocks
       /\ IF nx.at = "panic"
          THEN Return("panic")
          ELSE pc' = nx.at /\ UNCHANGED ret
  /\ UNCHANGED <<call, f, writes, dec, hdr>>

\* dst.Write(e.buf[:]) of the full buffer, inside the loop.
Flush ==
  /\ pc = "flush"
  /\ \E err \in WriteOutcomes :
       /\ writes' = Append(writes,
                           [by |-> "etc2", err |-> err,
                            data |-> Slice(buf, encoderBufferSize)])
       /\ IF Aborts(err)
          THEN Return(err) /\ UNCHANGED <<bufJ, blockX>>
          ELSE /\ bufJ' = 0
               /\ blockX' = blockX + 4
               /\ pc' = "loop"
               /\ UNCHANGED ret
  /\ UNCHANGED <<call, f, blockY, buf, pixels, nBlocks, dec, hdr>>

\* The outer loop has ended: the write of the partly filled buffer, and
\* the return.
Final ==
  /\ pc = "final"
  /\ IF FinalDue(bufJ)
     THEN \E err \in WriteOutcomes :
            /\ writes' = Append(writes,
                                [by |-> "etc2", err |-> err,
                                 data |-> Slice(buf, bufJ)])
            /\ Return(err)
     ELSE Return("nil") /\ UNCHANGED writes
  /\ UNCHANGED <<call, f, blockX, blockY, bufJ, buf, pixels, nBlocks, dec, hdr>>

RECURSIVE Concat(_, _)
Concat(ws, i) ==
  IF i > Len(ws) THEN <<>>
  ELSE IF ws[i].err = "nil" THEN ws[i].data \o Concat(ws, i + 1)
  ELSE Concat(ws, i + 1)

\* The bytes the sink holds: the slices of the writes that succeeded.
Sink == Concat(writes, 1)

\* pkm.Decode reading back what a successful pkm.Encode wrote.
PkmDecode ==
  /\ pc = "done"
  /\ call.api = "pkm.Encode"
  /\ ret = "nil"
  /\ dec = <<>>
  /\ dec' = <<Decode(Sink)>>
  /\ pc' = "decoded"
  /\ UNCHANGED <<call, f, blockX, blockY, bufJ, buf, pixels, writes, nBlocks, ret, hdr>>

Next ==
  \/ PkmEncode
  \/ PkmWriteHeader
  \/ Etc2Encode
  \/ EncodeBlocks
  \/ Flush
  \/ Final
  \/ PkmDecode

Spec == Init /\ [][Next]_vars


(***************************************************************************)
(* The header specification: decodeConfig applied to sixteen bytes drawn   *)
(* from a bounded set that holds valid headers and every way the checks    *)
(* can fail.                                                               *)
(***************************************************************************)
\* "PKM " with at most one byte altered
MagicVariants ==
  {Magic} \cup { [Magic EXCEPT ![p] = Magic[p] + 1] : p \in 1..4 }

\* <<original, padded>> values of a dimension
WidthPairs ==
  { <<0, 0>>, <<1, 4>>, <<1, 0>>, <<4, 4>>, <<5, 4>>, <<3, 8>>,
    <<65532, 65532>>, <<65533, 65532>>, <<65535, 0>> }

HeightPairs == { <<0, 0>>, <<5, 8>>, <<5, 4>>, <<65533, 65532>> }

Headers ==
  { m \o <<b4, b5, b6, b7,
           wp[2] \div 256, wp[2] % 256, hp[2] \div 256, hp[2] % 256,
           wp[1] \div 256, wp[1] % 256, hp[1] \div 256, hp[1] % 256>> :
      m \in MagicVariants, b4 \in {48, 49, 50, 51}, b5 \in {48, 49},
      b6 \in {0, 1}, b7 \in (0..MaxFormatByte) \cup {255},
      wp \in WidthPairs, hp \in HeightPairs }

InitHdr ==
  /\ hdr \in Headers
  /\ call = [api |-> "decodeConfig", srcNil |-> FALSE, dstNil |-> FALSE,
             W |-> 0, H |-> 0, f |-> 0, options |-> <<>>]
  /\ pc = "decodeConfig"
  /\ f = 0
  /\ blockX = 0
  /\ blockY = 0
  /\ bufJ = 0
  /\ buf = <<>>
  /\ pixels = <<>>
  /\ writes = <<>>
  /\ nBlocks = 0
  /\ ret = ""
  /\ dec = <<>>

DecodeConfigCall ==
  /\ pc = "decodeConfig"
  /\ dec' = <<decodeConfig(hdr)>>
  /\ ret' = dec'[1].err
  /\ pc' = "done"
  /\ UNCHANGED <<call, f, blockX, blockY, bufJ, buf, pixels, writes, nBlocks, hdr>>

NextHdr == DecodeConfigCall

SpecHdr == InitHdr /\ [][NextHdr]_vars

(***************************************************************************)
(* Vocabulary of the properties, stated without the operators above.       *)
(***************************************************************************)
\* The format the caller asked for.
CallFormat ==
  IF call.api = "pkm.Encode"
  THEN (IF call.options = <<>> THEN FormatETC2RGB
        ELSE IF call.options[1] = 0 THEN FormatETC2RGB ELSE call.options[1])
  ELSE call.f

Returned == pc \in {"done", "decoded"}

\* n rounded up to a multiple of 4
Pad4(n) == 4 * ((n + 3) \div 4)

\* ceil(n / 4)
Ceil4(n) == (n + 3) \div 4

SixteenByteFormats ==
  { FormatETC2RGBA8, FormatETC2SRGBA8,
    FormatETC2RG11Unsigned, FormatETC2RG11Signed }

ExpectedBytesPerBlock(fmt) == IF fmt \in SixteenByteFormats THEN 16 ELSE 8

\* The PKM format enum of the container's table.
PkmEnum(fmt) ==
  CASE fmt \in {FormatETC1S, FormatETC1} -> 0
    [] fmt = FormatETC2RGB -> 1
    [] fmt = FormatETC2RGBA8 -> 3
    [] fmt = FormatETC2RGBA1 -> 4
    [] fmt = FormatETC2R11Unsigned -> 5
    [] fmt = FormatETC2RG11Unsigned -> 6
    [] fmt = FormatETC2R11Signed -> 7
    [] fmt = FormatETC2RG11Signed -> 8
    [] fmt = FormatETC2SRGB -> 9
    [] fmt = FormatETC2SRGBA8 -> 10
    [] fmt = FormatETC2SRGBA1 -> 11

VersionOf(fmt) == IF fmt \in {FormatETC1S, FormatETC1} THEN 1 ELSE 2

\* The format without its colour space: the encoder treats RGB and sRGB alike.
Linear(fmt) ==
  CASE fmt = FormatETC2SRGB -> FormatETC2RGB
    [] fmt = FormatETC2SRGBA1 -> FormatETC2RGBA1
    [] fmt = FormatETC2SRGBA8 -> FormatETC2RGBA8
    [] OTHER -> fmt

\* The slices etc2.Encode handed to the sink, in order.
Etc2Writes == SelectSeq(writes, LAMBDA w : w.by = "etc2")

RECURSIVE ConcatData(_, _)
ConcatData(ws, i) ==
  IF i > Len(ws) THEN <<>> ELSE ws[i].data \o ConcatData(ws, i + 1)

\* A 64-bit codeword as eight bytes, most significant first.
BigEndian(x) ==
  [j \in 1..8 |->
     LET limb == x[4 - ((j - 1) \div 2)] IN
     IF j % 2 = 1 THEN limb \div 256 ELSE limb % 256]

\* The codewords of the block whose top-left corner is (bx, by): what the
\* sub-encoders return for the block's edge-replicated pixels.
CodewordsOf(px, lf) ==
  CASE lf = FormatETC2RGBA8 ->
         BigEndian(encodeAlpha(px)) \o BigEndian(encodeColor(px, lf))
    [] lf \in {FormatETC2RG11Unsigned, FormatETC2RG11Signed} ->
         BigEndian(encode11(px, 0, lf = FormatETC2RG11Signed)) \o
         BigEndian(encode11(px, 32, lf = FormatETC2RG11Signed))
    [] lf \in {FormatETC2R11Unsigned, FormatETC2R11Signed} ->
         BigEndian(encode11(px, 0, lf = FormatETC2R11Signed))
    [] OTHER -> BigEndian(encodeColor(px, lf))

ExpectedCodewords(fmt, bx, by) ==
  CHOOSE bytes \in
    { CodewordsOf(px, Linear(fmt)) :
        px \in {extract(ZeroPixels, Linear(fmt), call.W, call.H, bx, by)} } : TRUE

\* stream is the codewords of the cols x rows blocks in raster order.
IsRasterStream(stream, fmt) ==
  LET cols == Ceil4(call.W)
      rows == Ceil4(call.H)
      bpb == ExpectedBytesPerBlock(fmt)
  IN  /\ Len(stream) = cols * rows * bpb
      /\ \A k \in 0..((cols * rows) - 1) :
           SubSeq(stream, (k * bpb) + 1, (k + 1) * bpb) =
             ExpectedCodewords(fmt, 4 * (k % cols), 4 * (k \div cols))


(***************************************************************************)
(* Properties.                                                             *)
(***************************************************************************)
\* A call with a sink, a source and a size the encoder accepts.
PlainCall == ~ call.srcNil /\ ~ call.dstNil

\* C1: whenever Encode of a W x H source in a defined format returns nil,
\* the bytes etc2.Encode wrote, concatenated in write order, are exactly
\* the codewords of the ceil(W/4)*ceil(H/4) blocks in raster order, each
\* block 16 bytes (8-bit alpha, two 11-bit channels) or 8 bytes, each
\* codeword big-endian, with nothing lost, repeated or moved by a flush.
C1_StreamIsRasterCodewords ==
  (pc = "done" /\ ret = "nil" /\ PlainCall /\ CallFormat \in DefinedFormats)
    => /\ \E stream \in {ConcatData(Etc2Writes, 1)} :
            IsRasterStream(stream, CallFormat)
       /\ ExpectedBytesPerBlock(CallFormat) = BytesPerBlock(CallFormat)
       /\ nBlocks = Ceil4(call.W) * Ceil4(call.H)

\* C1 witness: a successful encode of 16-byte blocks that flushed the
\* buffer more than once and then wrote a partly filled one.
C1_Witness ==
  /\ pc = "done"
  /\ ret = "nil"
  /\ CallFormat \in SixteenByteFormats
  /\ Len(Etc2Writes) >= 3
  /\ Len(Etc2Writes[Len(Etc2Writes)].data) < encoderBufferSize
  /\ call.H > 4

\* The sixteen header bytes of the container's layout for (fmt, W, H).
ExpectedHeader(fmt, w, h) ==
  << 80, 75, 77, 32, 48 + VersionOf(fmt), 48, 0, PkmEnum(fmt),
     Pad4(w) \div 256, Pad4(w) % 256, Pad4(h) \div 256, Pad4(h) % 256,
     w \div 256, w % 256, h \div 256, h % 256 >>

\* C2: the first write pkm.Encode issues is the 16-byte header: "PKM ",
\* '1' or '2', 0x30, 0x00, the PKM enum of the format, the padded width
\* and height, the original width and height, all big-endian; for the
\* 21 x 32 source in ETC2-RGB it is
\* 50 4B 4D 20 32 30 00 01 00 18 00 20 00 15 00 20 and 384 bytes of
\* block data follow it.
C2_HeaderLayout ==
  (call.api = "pkm.Encode" /\ writes # <<>> /\ CallFormat \in DefinedFormats)
    => /\ writes[1].by = "pkm"
       /\ writes[1].data = ExpectedHeader(CallFormat, call.W, call.H)
       /\ Len(Etc2Writes) = Len(writes) - 1
       /\ (CallFormat = FormatETC2RGB /\ call.W = 21 /\ call.H = 32)
            => /\ writes[1].data =
                    <<80, 75, 77, 32, 50, 48, 0, 1, 0, 24, 0, 32, 0, 21, 0, 32>>
               /\ (Returned /\ ret = "nil")
                    => Len(Sink) = 16 + 384

\* C2 witness: the 21 x 32 ETC2-RGB source has been written in full.
C2_Witness ==
  /\ call.api = "pkm.Encode"
  /\ CallFormat = FormatETC2RGB
  /\ call.W = 21
  /\ call.H = 32
  /\ pc = "done"
  /\ ret = "nil"
  /\ Len(writes) = 2

ValidFormatBytes == (0..11) \ {2}

\* C3: the header pkm.Encode writes for a defined format is accepted by
\* decodeConfig, which returns the width, the height and the format
\* (ETC1S as ETC1); PKMFormat and pkmToETC2Formats are inverse on the
\* eleven valid format bytes, and the version byte is that of the format
\* byte.
C3_HeaderRoundTrip ==
  /\ (call.api = "pkm.Encode" /\ writes # <<>> /\ CallFormat \in DefinedFormats)
       => LET c == decodeConfig(writes[1].data) IN
          /\ c.err = "nil"
          /\ c.config.Width = call.W
          /\ c.config.Height = call.H
          /\ c.config.format =
               (IF CallFormat = FormatETC1S THEN FormatETC1 ELSE CallFormat)
          /\ writes[1].data[5] - 48 = ETCVersion(pkmToETC2Formats[writes[1].data[8]])
  /\ (pc = "decoded" /\ CallFormat \in DefinedFormats)
       => /\ dec[1].config.Width = call.W
          /\ dec[1].config.Height = call.H
          /\ dec[1].format =
               (IF CallFormat = FormatETC1S THEN FormatETC1 ELSE CallFormat)
  /\ (pc = "decoded")
       => /\ \A b \in ValidFormatBytes : PKMFormat(pkmToETC2Formats[b]) = b
          /\ \A fmt \in DefinedFormats \ {FormatETC1S} :
               pkmToETC2Formats[PKMFormat(fmt)] = fmt

\* C3 witness: a stream written for ETC1S at the largest width has been
\* read back.
C3_Witness ==
  /\ pc = "decoded"
  /\ CallFormat = FormatETC1S
  /\ call.W = 65532
  /\ dec[1].format = FormatETC1

\* What makes a sixteen-byte header no PKM header.
HeaderIsBad(h) ==
  \/ <<h[1], h[2], h[3], h[4]>> # <<80, 75, 77, 32>>
  \/ h[5] \notin {49, 50}
  \/ h[6] # 48
  \/ h[7] # 0
  \/ h[8] = 2
  \/ h[8] > 11
  \/ (IF h[8] = 0 THEN 1 ELSE 2) # h[5] - 48
  \/ Pad4((h[13] * 256) + h[14]) # (h[9] * 256) + h[10]
  \/ Pad4((h[15] * 256) + h[16]) # (h[11] * 256) + h[12]

\* C4: decodeConfig returns ErrNotAPKMFile and no configuration for every
\* sixteen-byte header with a wrong magic, version, byte 5, byte 6 or
\* format byte, with a version that is not the format's, or with padded
\* dimensions that are not the original ones rounded up to a multiple of
\* 4; it accepts every other header.
C4_RejectsExactlyBadHeaders ==
  (call.api = "decodeConfig" /\ pc = "done")
    => IF HeaderIsBad(hdr)
       THEN dec[1].err = "ErrNotAPKMFile" /\ dec[1].config = NoConfig
       ELSE /\ dec[1].err = "nil"
            /\ dec[1].config.Width = (hdr[13] * 256) + hdr[14]
            /\ dec[1].config.Height = (hdr[15] * 256) + hdr[16]

\* C4 witness: a header rejected only for its dimensions, 65533 wide.
C4_Witness ==
  /\ call.api = "decodeConfig"
  /\ pc = "done"
  /\ dec[1].err = "ErrNotAPKMFile"
  /\ <<hdr[1], hdr[2], hdr[3], hdr[4]>> = Magic
  /\ hdr[5] = 50 /\ hdr[6] = 48 /\ hdr[7] = 0 /\ hdr[8] = 11
  /\ (hdr[13] * 256) + hdr[14] = 65533

\* C4 second witness: a valid header is accepted.
C4_WitnessAccepted ==
  /\ call.api = "decodeConfig"
  /\ pc = "done"
  /\ dec[1].err = "nil"

BadArgumentErrors == {"ErrBadArgument", "pkm.ErrBadArgument"}

TooLargeErrors == {"ErrImageIsTooLarge", "pkm.ErrImageIsTooLarge"}

\* The format argument is none of the defined constants (for pkm.Encode:
\* and is not the zero that selects the default).
UnknownFormat ==
  IF call.api = "pkm.Encode"
  THEN call.options # <<>> /\ call.options[1] # 0
       /\ call.options[1] \notin DefinedFormats
  ELSE call.f \notin DefinedFormats

\* C5: Encode returns BadArgument and writes nothing for every unknown
\* Format: every value that is not a defined constant is rejected by
\* etc2.Encode, and every such non-zero value by pkm.Encode before the
\* header is written.
C5_UnknownFormatRejected ==
  (PlainCall /\ UnknownFormat /\ call.W <= 65532 /\ call.H <= 65532
     /\ pc # call.api)
    => /\ pc = "done"
       /\ ret \in BadArgumentErrors
       /\ writes = <<>>

\* C6: Encode with a nil source returns BadArgument, without crashing and
\* without writing, for etc2.Encode and for pkm.Encode.
C6_NilSourceIsBadArgument ==
  (call.srcNil /\ pc # call.api)
    => /\ pc = "done"
       /\ ret \in BadArgumentErrors
       /\ writes = <<>>

\* C7: for a non-nil source and a defined Format, Encode returns
\* ImageTooLarge exactly when the width or the height exceeds 65532, and
\* then nothing, not even the PKM header, has been written; every width
\* and height in 0..65532 is accepted.
C7_TooLargeExactlyAbove65532 ==
  (PlainCall /\ CallFormat \in DefinedFormats /\ pc # call.api)
    => IF call.W > 65532 \/ call.H > 65532
       THEN pc = "done" /\ ret \in TooLargeErrors /\ writes = <<>>
       ELSE /\ ret \notin TooLargeErrors \cup BadArgumentErrors
            /\ Returned => ret \in WriteOutcomes

\* C7 witness: a source one pixel wider than the limit has been refused.
C7_Witness ==
  /\ PlainCall
  /\ CallFormat \in DefinedFormats
  /\ call.W = 65533
  /\ call.H = 4
  /\ pc = "done"
  /\ ret = "pkm.ErrImageIsTooLarge"

\* C7 second witness: a source of the largest width has been encoded.
C7_WitnessAccepted ==
  /\ PlainCall
  /\ CallFormat \in DefinedFormats
  /\ call.W = 65532
  /\ pc = "done"
  /\ ret = "nil"

RECURSIVE SumLen(_, _)
SumLen(ws, i) == IF i > Len(ws) THEN 0 ELSE Len(ws[i].data) + SumLen(ws, i + 1)

\* C8: if a sink write returns an error (the header write, a flush of the
\* full buffer, the final write), Encode returns that same error, issues
\* no further write and encodes no further block.
C8_WriteErrorAborts ==
  \A i \in 1..Len(writes) :
    (writes[i].err # "nil")
      => /\ i = Len(writes)
         /\ pc = "done"
         /\ ret = writes[i].err
         /\ (CallFormat \in DefinedFormats)
              => nBlocks * BytesPerBlock(CallFormat) = SumLen(Etc2Writes, 1)

\* C8 witness: the second flush of the full buffer failed.
C8_Witness ==
  /\ Len(Etc2Writes) = 2
  /\ Etc2Writes[2].err = "EPIPE"
  /\ Len(Etc2Writes[2].data) = encoderBufferSize
  /\ ret = "EPIPE"

\* Every write of etc2.Encode but the last carries n bytes, the last from
\* 1 to n.
ChunksOf(n) ==
  LET ws == Etc2Writes IN
  \A i \in 1..Len(ws) :
    IF i < Len(ws) THEN Len(ws[i].data) = n
    ELSE (1 <= Len(ws[i].data)) /\ (Len(ws[i].data) <= n)

\* C9 as stated: etc2.Encode writes in chunks of 4096 bytes: every write
\* but possibly the last carries exactly 4096 bytes, the last 1 to 4096.
C9_ChunksOf4096 == Returned => ChunksOf(4096)

\* C9 amended: every write of etc2.Encode but possibly the last carries
\* exactly 3968 bytes (encoderBufferSize = 4096 - 64 - 64), and the last
\* carries between 1 and 3968 bytes.
C9_ChunksOf3968 == ChunksOf(3968)

\* C9 witness: two full flushes and a shorter last write.
C9_Witness ==
  /\ pc = "done"
  /\ Len(Etc2Writes) = 3
  /\ Len(Etc2Writes[1].data) = 3968
  /\ Len(Etc2Writes[3].data) = 16

\* C10 as stated: the stream pkm.Encode produces is accepted by
\* pkm.Decode and the image Decode returns has the padded dimensions.
C10_DecodedImageIsPadded ==
  (pc = "decoded" /\ CallFormat \in DefinedFormats)
    => /\ dec[1].err = "nil"
       /\ Dx(dec[1].image.rect) = Pad4(call.W)
       /\ Dy(dec[1].image.rect) = Pad4(call.H)

\* C10 amended: the stream pkm.Encode produces is accepted by pkm.Decode;
\* the image Decode allocates has the padded dimensions, and the image it
\* returns is that image cropped to the original (0,0)-(W,H), the empty
\* rectangle when W or H is 0.
C10_DecodedImageIsCropped ==
  (pc = "decoded" /\ CallFormat \in DefinedFormats)
    => /\ dec[1].err = "nil"
       /\ Dx(dec[1].image.full) = Pad4(call.W)
       /\ Dy(dec[1].image.full) = Pad4(call.H)
       /\ dec[1].image.rect =
            (IF call.W = 0 \/ call.H = 0
             THEN [MinX |-> 0, MinY |-> 0, MaxX |-> 0, MaxY |-> 0]
             ELSE [MinX |-> 0, MinY |-> 0, MaxX |-> call.W, MaxY |-> call.H])

\* C10 witness: a 21 x 32 stream decoded to a 21 x 32 view of a 24 x 32
\* image.
C10_Witness ==
  /\ pc = "decoded"
  /\ call.W = 21
  /\ call.H = 32
  /\ dec[1].err = "nil"
  /\ dec[1].image.rect.MaxX = 21
  /\ dec[1].image.full.MaxX = 24


(***************************************************************************)
(* The extractor on a source whose bounds need not start at the origin:    *)
(* Encode's loops over (blockX, blockY) and the coordinates the closure    *)
(* of makeExtract hands to the source.                                     *)
(***************************************************************************)
\* The values that the variables of Encode hold in the specifications of
\* single functions, which do not use them.
Idle ==
  /\ f = 0
  /\ bufJ = 0
  /\ buf = <<>>
  /\ pixels = <<>>
  /\ writes = <<>>
  /\ nBlocks = 0
  /\ ret = ""
  /\ hdr = <<>>

\* src.Bounds() of the sources: corners at, left of and right of the origin.
SourceRects ==
  { [MinX |-> mn[1], MinY |-> mn[2], MaxX |-> mn[1] + w, MaxY |-> mn[2] + h] :
      mn \in {<<0, 0>>, <<4, 0>>, <<0, 8>>, <<-3, -2>>, <<5, 7>>},
      w \in 1..(2 * MaxSmallDim), h \in 1..MaxSmallDim }

\* The coordinates the closure samples for the block at (blockX, blockY):
\* mX1 and mY1 are maxPoint.X - 1 and maxPoint.Y - 1.
SampleCoords(r, bX, bY) ==
  { << SampleX(r.MaxX - 1, bX, x), SampleX(r.MaxY - 1, bY, y) >> :
      x \in 0..3, y \in 0..3 }

InitExt ==
  /\ call \in { [api |-> "extract", rect |-> r] : r \in SourceRects }
  /\ pc = "loop"
  /\ blockX = 0
  /\ blockY = 0
  /\ dec = {}
  /\ Idle

\* extract(blockX, blockY) for the next block the loops of Encode visit.
ExtractBlock ==
  /\ pc = "loop"
  /\ call.api = "extract"
  /\ blockY < Dy(call.rect)
  /\ blockX < Dx(call.rect)
  /\ dec' = SampleCoords(call.rect, blockX, blockY)
  /\ IF blockX + 4 < Dx(call.rect)
     THEN blockX' = blockX + 4 /\ blockY' = blockY
     ELSE blockX' = 0 /\ blockY' = blockY + 4
  /\ UNCHANGED <<call, pc, f, bufJ, buf, pixels, writes, nBlocks, ret, hdr>>

NextExt == ExtractBlock

SpecExt == InitExt /\ [][NextExt]_vars

\* C11: every coordinate the extractor samples, for every source rectangle
\* (its Min corner at the origin or not) and every block Encode visits,
\* lies inside the source's bounds: Min.X <= px < Max.X, Min.Y <= py < Max.Y.
C11_SamplesInsideBounds ==
  \A c \in dec :
    /\ call.rect.MinX <= c[1] /\ c[1] < call.rect.MaxX
    /\ call.rect.MinY <= c[2] /\ c[2] < call.rect.MaxY


(***************************************************************************)
(* Block-locality.                                                         *)
(***************************************************************************)
\* The sixteen source pixels of the block at (bx, by), those right of and
\* below the source replaced by the nearest pixel of its last column and
\* row; p = 4*y + x.
EdgeReplicated(bx, by) ==
  [p \in 0..15 |->
     SrcPix(IF bx + (p % 4) < call.W THEN bx + (p % 4) ELSE call.W - 1,
            IF by + (p \div 4) < call.H THEN by + (p \div 4) ELSE call.H - 1)]

\* A scratch buffer that holds something else than zeroes.
StalePixels == [k \in 0..63 |-> 170]

\* The bytes of a block as a function of the format, of sixteen colours and
\* of what the scratch buffer held before.
BytesFor(lf, cs, scratch) ==
  CHOOSE bytes \in { CodewordsOf(px, lf) : px \in {Layout(scratch, lf, cs)} } : TRUE

Pow2(n) == 2 ^ n

Zero64 == <<0, 0, 0, 0>>

\* uint64(v) << s for 0 <= v < 2^16: the bits shifted past bit 63 are lost.
Shl64(v, s) ==
  LET q == s \div 16
      r == s % 16
      lo == (v % Pow2(16 - r)) * Pow2(r)
      hi == v \div Pow2(16 - r)
  IN  << IF q = 0 THEN lo ELSE 0,
         IF q = 1 THEN lo ELSE IF q = 0 THEN hi ELSE 0,
         IF q = 2 THEN lo ELSE IF q = 1 THEN hi ELSE 0,
         IF q = 3 THEN lo ELSE IF q = 2 THEN hi ELSE 0 >>

\* a | b
Or64(a, b) ==
  << BitOr(a[1], b[1]), BitOr(a[2], b[2]), BitOr(a[3], b[3]), BitOr(a[4], b[4]) >>

\* (x >> lo) & (2^n - 1) for n <= 16
Bits64(x, lo, n) ==
  LET q == lo \div 16
      r == lo % 16
      low == x[q + 1] \div Pow2(r)
      high == IF q < 3 THEN (x[q + 2] % Pow2(r)) * Pow2(16 - r) ELSE 0
  IN  (low + high) % Pow2(n)

\* uint64 of a uint32 given as its two 16-bit halves
U64Of32(hi16, lo16) == << lo16, hi16, 0, 0 >>

(***************************************************************************)
(* lib/etc2: encodeT, from the clusters the search settled on to the       *)
(* codeword.                                                               *)
(***************************************************************************)
\* convert8BitTo4Bit on one channel
convert8BitTo4Bit(a) == U8(((a + 8) * 15) \div 255)

RedOverflows_TwoTerms(a, b, c, d) ==
  ((a = 1) /\ (c = 1)) \/ ((a = 0) /\ (b = 1) /\ (c = 1) /\ (d = 1))

\* 0 != ((a & c) | (^a & b & c & d) | (a & b & ^c & d)) on single bits
RedOverflows(a, b, c, d) ==
  \/ (a = 1) /\ (c = 1)
  \/ (a = 0) /\ (b = 1) /\ (c = 1) /\ (d = 1)
  \/ (a = 1) /\ (b = 1) /\ (c = 0) /\ (d = 1)

\* "Ensure diff-red overflows."
EnsureRedOverflows(code) ==
  IF RedOverflows(Bits64(code, 60, 1), Bits64(code, 59, 1),
                  Bits64(code, 57, 1), Bits64(code, 56, 1))
  THEN Or64(code, Shl64(7, 61))
  ELSE Or64(code, Shl64(1, 58))

\* The swap of the two base colours when bestSwap > 0.
SwapIf(swap, cluster) == IF swap > 0 THEN << cluster[2], cluster[1] >> ELSE cluster

\* encodeT after its search: cluster is the best cluster as 4-bit colours
\* (<<R, G, B>> twice), which the distance index, the pixel indexes a
\* uint32 in two halves.
PackT(cluster, swap, which, idxHi, idxLo, formatIsOneBitAlpha) ==
  LET bc == SwapIf(swap, cluster)
      c0 == Or64(Shl64(BitAnd(bc[1][1], 12), 57),
            Or64(Shl64(BitAnd(bc[1][1], 3), 56),
            Or64(Shl64(bc[1][2], 52),
            Or64(Shl64(bc[1][3], 48),
            Or64(Shl64(bc[2][1], 44),
            Or64(Shl64(bc[2][2], 40),
            Or64(Shl64(bc[2][3], 36),
            Or64(Shl64(BitAnd(which, 6), 33),
            Or64(Shl64(BitAnd(which, 1), 32),
                 U64Of32(idxHi, idxLo))))))))))
      c1 == IF formatIsOneBitAlpha THEN c0 ELSE Or64(c0, Shl64(1, 33))
  IN  EnsureRedOverflows(c1)


(***************************************************************************)
(* The specification of encodeT: the clusters, the swap, the distance      *)
(* index and the pixel indexes its search can settle on, then the packing. *)
(***************************************************************************)
\* 8-bit channel values that convert8BitTo4Bit maps onto all of 0..15
Channels8 == { 17 * k : k \in 0..15 } \cup {8, 250}

FewChannels8 == {0, 119, 255}

\* Halves of the uint32 pixel indexes
IndexHalves == {1, 43690}

TInputs ==
  { [api |-> "encodeT",
     cluster |-> << <<r0, g0, 255>>, <<r1, 0, b1>> >>,
     swap |-> sw, which |-> wh, idxHi |-> ih, idxLo |-> 65535 - ih,
     formatIsOneBitAlpha |-> ob] :
      r0 \in Channels8, g0 \in {0, 255}, r1 \in Channels8, b1 \in {0, 255},
      sw \in {0, 1}, wh \in {0, 5, 7}, ih \in IndexHalves, ob \in BOOLEAN }

InitT ==
  /\ call \in TInputs
  /\ pc = "encodeT"
  /\ blockX = 0
  /\ blockY = 0
  /\ dec = <<>>
  /\ Idle

\* The 4-bit colours of a cluster.
Cluster4(cluster) ==
  [i \in 1..2 |-> [j \in 1..3 |-> convert8BitTo4Bit(cluster[i][j])]]

EncodeTCall ==
  /\ pc = "encodeT"
  /\ dec' = << PackT(Cluster4(call.cluster), call.swap, call.which,
                     call.idxHi, call.idxLo, call.formatIsOneBitAlpha) >>
  /\ pc' = "done"
  /\ UNCHANGED <<call, f, blockX, blockY, bufJ, buf, pixels, writes, nBlocks, ret, hdr>>

NextT == EncodeTCall

SpecT == InitT /\ [][NextT]_vars

\* A 3-bit field as a two's-complement number.
Signed3(v) == IF v >= 4 THEN v - 8 ELSE v

\* base (5 bits at lo + 3) plus signed delta (3 bits at lo) of a codeword
DiffSum(code, lo) == Bits64(code, lo + 3, 5) + Signed3(Bits64(code, lo, 3))

\* C13: every codeword encodeT returns carries the T-mode tag: the 5-bit
\* red field (bits 63..59) plus the 3-bit two's-complement red delta (bits
\* 58..56) lies outside 0..31.
C13_TModeTag ==
  (pc = "done" /\ call.api = "encodeT") => DiffSum(dec[1], 56) \notin 0..31

\* C13 witness: a codeword whose red nibble is 1101, tagged by setting the
\* three top bits, and a distance index of 7.
C13_Witness ==
  /\ pc = "done"
  /\ call.api = "encodeT"
  /\ Bits64(dec[1], 59, 2) = 3
  /\ Bits64(dec[1], 56, 3) = 1
  /\ Bits64(dec[1], 61, 3) = 7
  /\ call.which = 7
  /\ DiffSum(dec[1], 56) > 31


(***************************************************************************)
(* lib/etc2: encodeH, from the clusters the search settled on to the       *)
(* codeword.                                                               *)
(***************************************************************************)
\* (256 * R) + (16 * G) + B of a 4-bit colour
Packed444(c) == (256 * c[1]) + (16 * c[2]) + c[3]

\* <<15 & (c >> 8), 15 & (c >> 4), 15 & (c >> 0)>>
Unpacked444(c) == << (c \div 256) % 16, (c \div 16) % 16, c % 16 >>

\* sort4BitColors: the two colours in increasing order, and made to differ.
sort4BitColors(a) ==
  LET c0 == Packed444(a[1])
      c1 == Packed444(a[2])
  IN  IF c0 < c1 THEN a
      ELSE IF c0 > c1 THEN << Unpacked444(c1), Unpacked444(c0) >>
      ELSE IF c0 = 0 THEN << Unpacked444(c0), Unpacked444(c0 + 1) >>
      ELSE << Unpacked444(c1 - 1), Unpacked444(c1) >>

\* A variant that swaps the colours and leaves the pixel indexes alone.
sort4BitColorsWithPixelIndexes_KeepsIndexes(a, which, idxHi, idxLo) ==
  IF (Packed444(a[1]) >= Packed444(a[2])) = (BitAnd(which, 1) = 1)
  THEN [a |-> a, idxHi |-> idxHi, idxLo |-> idxLo]
  ELSE [a |-> << a[2], a[1] >>, idxHi |-> idxHi, idxLo |-> idxLo]

\* sort4BitColorsWithPixelIndexes: the colours, swapped unless their order
\* already tells the low bit of which, and the pixel indexes, their upper
\* half inverted on a swap.
sort4BitColorsWithPixelIndexes(a, which, idxHi, idxLo) ==
  LET c0 == Packed444(a[1])
      c1 == Packed444(a[2])
  IN  IF (c0 >= c1) = (BitAnd(which, 1) = 1)
      THEN [a |-> a, idxHi |-> idxHi, idxLo |-> idxLo]
      ELSE [a |-> << Unpacked444(c1), Unpacked444(c0) >>,
            idxHi |-> 65535 - idxHi, idxLo |-> idxLo]

EnsureRedInRange_Skipped(code) == code

\* "Ensure diff-red does not overflow": code |= (((code >> 62) & 1) ^ 1) << 63
EnsureRedInRange(code) == Or64(code, Shl64(1 - Bits64(code, 62, 1), 63))

\* 0 != ((a & c) | (^a & b & c & d) | (a & b & ^c & d)) on single bits
GreenOverflows(a, b, c, d) ==
  \/ (a = 1) /\ (c = 1)
  \/ (a = 0) /\ (b = 1) /\ (c = 1) /\ (d = 1)
  \/ (a = 1) /\ (b = 1) /\ (c = 0) /\ (d = 1)

\* A variant whose three-bit patch starts one bit lower, on the low bit of
\* the first green.
EnsureGreenOverflows_OnPayload(code) ==
  IF GreenOverflows(Bits64(code, 52, 1), Bits64(code, 51, 1),
                    Bits64(code, 49, 1), Bits64(code, 48, 1))
  THEN Or64(code, Shl64(7, 52))
  ELSE Or64(code, Shl64(1, 50))

\* "Ensure diff-green overflows."
EnsureGreenOverflows(code) ==
  IF GreenOverflows(Bits64(code, 52, 1), Bits64(code, 51, 1),
                    Bits64(code, 49, 1), Bits64(code, 48, 1))
  THEN Or64(code, Shl64(7, 53))
  ELSE Or64(code, Shl64(1, 50))

\* encodeH after its search: cluster is the best cluster as sorted 4-bit
\* colours, which the distance index, the pixel indexes a uint32 in two
\* halves.
PackH(cluster, swap, which, idxHi, idxLo, formatIsOneBitAlpha) ==
  LET s == sort4BitColorsWithPixelIndexes(SwapIf(swap, cluster), which, idxHi, idxLo)
      bc == s.a
      c0 == Or64(Shl64(bc[1][1], 59),
            Or64(Shl64(BitAnd(bc[1][2], 14), 55),
            Or64(Shl64(BitAnd(bc[1][2], 1), 52),
            Or64(Shl64(BitAnd(bc[1][3], 8), 48),
            Or64(Shl64(BitAnd(bc[1][3], 7), 47),
            Or64(Shl64(bc[2][1], 43),
            Or64(Shl64(bc[2][2], 39),
            Or64(Shl64(bc[2][3], 35),
            Or64(Shl64(BitAnd(which, 4), 32),
            Or64(Shl64(BitAnd(which, 2), 31),
                 U64Of32(s.idxHi, s.idxLo)))))))))))
      c1 == IF formatIsOneBitAlpha THEN c0 ELSE Or64(c0, Shl64(1, 33))
  IN  EnsureGreenOverflows(EnsureRedInRange(c1))

(***************************************************************************)
(* The specification of encodeH.                                           *)
(***************************************************************************)
HInputs ==
  { [api |-> "encodeH",
     cluster |-> << <<r0, g0, b0>>, <<r1, g1, 119>> >>,
     swap |-> sw, which |-> wh, idxHi |-> ih, idxLo |-> 65535 - ih,
     formatIsOneBitAlpha |-> ob] :
      r0 \in FewChannels8, g0 \in {0, 17, 136, 255}, b0 \in Channels8,
      r1 \in {0, 136}, g1 \in {0, 255},
      sw \in {0, 1}, wh \in {3, 6}, ih \in IndexHalves, ob \in BOOLEAN }

InitH ==
  /\ call \in HInputs
  /\ pc = "encodeH"
  /\ blockX = 0
  /\ blockY = 0
  /\ dec = <<>>
  /\ Idle

EncodeHCall ==
  /\ pc = "encodeH"
  /\ dec' = << PackH(sort4BitColors(Cluster4(call.cluster)), call.swap, call.which,
                     call.idxHi, call.idxLo, call.formatIsOneBitAlpha) >>
  /\ pc' = "done"
  /\ UNCHANGED <<call, f, blockX, blockY, bufJ, buf, pixels, writes, nBlocks, ret, hdr>>

NextH == EncodeHCall

SpecH == InitH /\ [][NextH]_vars

\* C14: every codeword encodeH returns carries the H-mode tag: the red
\* 5-bit field plus its 3-bit signed delta (bits 63..59 and 58..56) lies
\* inside 0..31, and the green 5-bit field plus its 3-bit signed delta
\* (bits 55..51 and 50..48) lies outside 0..31.
C14_HModeTag ==
  (pc = "done" /\ call.api = "encodeH")
    => /\ DiffSum(dec[1], 56) \in 0..31
       /\ DiffSum(dec[1], 48) \notin 0..31

\* C14 witness: a codeword whose red nibble is below 8, so that bit 63 was
\* set, with a negative red delta, and whose green tag is a negative sum.
C14_Witness ==
  /\ pc = "done"
  /\ call.api = "encodeH"
  /\ Bits64(dec[1], 62, 2) = 2
  /\ Bits64(dec[1], 56, 3) >= 4
  /\ DiffSum(dec[1], 48) < 0


(***************************************************************************)
(* lib/etc2: encodePlanar, from the clamped least-squares colours to the   *)
(* codeword.  A colour channel is a number of halves, 0..510 for 0..255:   *)
(* the float64 values are taken on this grid.                              *)
(***************************************************************************)
\* int32(((c * 0x3F) / 0xFF) + 0.5) for c = n / 2
Quantize6(n) == ((2 * n * 63) + 510) \div 1020

\* int32(((c * 0x7F) / 0xFF) + 0.5) for c = n / 2
Quantize7(n) == ((2 * n * 127) + 510) \div 1020

EnsureGreenInRange_Skipped(code) == code

\* "Ensure diff-green does not overflow": code |= (((code >> 54) & 1) ^ 1) << 55
EnsureGreenInRange(code) == Or64(code, Shl64(1 - Bits64(code, 54, 1), 55))

\* 0 != ((a & c) | (^a & b & c & d) | (a & b & ^c & d)) on single bits
BlueOverflows(a, b, c, d) ==
  \/ (a = 1) /\ (c = 1)
  \/ (a = 0) /\ (b = 1) /\ (c = 1) /\ (d = 1)
  \/ (a = 1) /\ (b = 1) /\ (c = 0) /\ (d = 1)

\* "Ensure diff-blue overflows."
EnsureBlueOverflows(code) ==
  IF BlueOverflows(Bits64(code, 44, 1), Bits64(code, 43, 1),
                   Bits64(code, 41, 1), Bits64(code, 40, 1))
  THEN Or64(code, Shl64(7, 45))
  ELSE Or64(code, Shl64(1, 42))

\* encodePlanar after its least squares: colorO, colorH, colorV are
\* <<R, G, B>> in halves.
PackPlanar(colorO, colorH, colorV) ==
  LET colorOR6 == Quantize6(colorO[1])
      colorOG7 == Quantize7(colorO[2])
      colorOB6 == Quantize6(colorO[3])
      colorHR6 == Quantize6(colorH[1])
      colorHG7 == Quantize7(colorH[2])
      colorHB6 == Quantize6(colorH[3])
      colorVR6 == Quantize6(colorV[1])
      colorVG7 == Quantize7(colorV[2])
      colorVB6 == Quantize6(colorV[3])
      c0 == Or64(Shl64(colorOR6, 63 - (6 + 0)),
            Or64(Shl64(BitAnd(colorOG7, 64), 57 - (1 + 6)),
            Or64(Shl64(BitAnd(colorOG7, 63), 55 - (6 + 0)),
            Or64(Shl64(BitAnd(colorOB6, 32), 49 - (1 + 5)),
            Or64(Shl64(BitAnd(colorOB6, 24), 45 - (2 + 3)),
            Or64(Shl64(BitAnd(colorOB6, 7), 42 - (3 + 0)),
            Or64(Shl64(BitAnd(colorHR6, 62), 39 - (5 + 1)),
            Or64(Shl64(BitAnd(colorHR6, 1), 33 - (1 + 0)),
            Or64(Shl64(colorHG7, 32 - 7),
            Or64(Shl64(colorHB6, 25 - 6),
            Or64(Shl64(colorVR6, 19 - 6),
            Or64(Shl64(colorVG7, 13 - 7),
            Or64(Shl64(colorVB6, 0),
                 Shl64(1, 33))))))))))))))
  IN  EnsureBlueOverflows(EnsureGreenInRange(EnsureRedInRange(c0)))

(***************************************************************************)
(* The specification of encodePlanar.                                      *)
(***************************************************************************)
\* Channel values, in halves, that quantize onto every 6-bit value.
Halves6 == { ((510 * q) + 31) \div 63 : q \in 0..63 }

PlanarInputs ==
  { [api |-> "encodePlanar", colorO |-> <<oR, oG, oB>>,
     colorH |-> hv, colorV |-> <<hv[3], hv[1], hv[2]>>] :
      oR \in {0, 9, 250, 255, 267, 510}, oG \in {0, 8, 131, 254, 257, 383, 510},
      oB \in Halves6, hv \in {<<0, 255, 510>>, <<510, 1, 128>>} }

InitPlanar ==
  /\ call \in PlanarInputs
  /\ pc = "encodePlanar"
  /\ blockX = 0
  /\ blockY = 0
  /\ dec = <<>>
  /\ Idle

EncodePlanarCall ==
  /\ pc = "encodePlanar"
  /\ dec' = << PackPlanar(call.colorO, call.colorH, call.colorV) >>
  /\ pc' = "done"
  /\ UNCHANGED <<call, f, blockX, blockY, bufJ, buf, pixels, writes, nBlocks, ret, hdr>>

NextPlanar == EncodePlanarCall

SpecPlanar == InitPlanar /\ [][NextPlanar]_vars

\* C15: every codeword encodePlanar returns carries the Planar-mode tag:
\* bit 33 is set, the red sum (bits 63..59 plus signed bits 58..56) and the
\* green sum (bits 55..51 plus signed bits 50..48) lie inside 0..31 and the
\* blue sum (bits 47..43 plus signed bits 42..40) lies outside 0..31, the
\* quantised colours being within their 6-, 7- and 6-bit fields.
C15_PlanarModeTag ==
  (pc = "done" /\ call.api = "encodePlanar")
    => /\ Bits64(dec[1], 33, 1) = 1
       /\ DiffSum(dec[1], 56) \in 0..31
       /\ DiffSum(dec[1], 48) \in 0..31
       /\ DiffSum(dec[1], 40) \notin 0..31
       /\ \A c \in {call.colorO, call.colorH, call.colorV} :
            /\ Quantize6(c[1]) \in 0..63
            /\ Quantize7(c[2]) \in 0..127
            /\ Quantize6(c[3]) \in 0..63

\* C15 witness: the origin colour is white, every field of it full: bits
\* 63 and 55 stay clear and the blue tag is the three set bits 47..45.
C15_Witness ==
  /\ pc = "done"
  /\ call.api = "encodePlanar"
  /\ call.colorO = <<510, 510, 510>>
  /\ Bits64(dec[1], 62, 2) = 1
  /\ Bits64(dec[1], 54, 2) = 1
  /\ Bits64(dec[1], 45, 3) = 7


(***************************************************************************)
(* lib/etc2: the Individual and Differential codewords of                  *)
(* encodeRGBSansAlpha and of encodeRGBWithAlpha.  An average of eight       *)
(* 8-bit values is a number of eighths, 0..2040 for 0..255.                *)
(***************************************************************************)
\* (r << 3) | (r >> 2) of a 5-bit r
Expand5(r) == (r * 8) + (r \div 4)

\* (r << 4) | r of a 4-bit r
Expand4(r) == (r * 16) + r

\* reduceAverage on one channel: s is the average in eighths.
reduceAverage(s, produce5BitColor) ==
  IF produce5BitColor
  THEN Expand5(((2 * s * 31) + 2040) \div 4080)
  ELSE Expand4(((2 * s * 15) + 2040) \div 4080)

\* reduceQuantize on one channel: the corner below the average (hi = 0) or
\* the one above (hi = 1); which of the eight combinations of corners the
\* three channels get is the loss's choice.
reduceQuantize(s, produce5BitColor, hi) ==
  IF produce5BitColor
  THEN LET lo == (s * 31) \div 2040 IN
       IF hi = 0 THEN Expand5(lo) ELSE Expand5(Min2(31, lo + 1))
  ELSE LET lo == (s * 15) \div 2040 IN
       IF hi = 0 THEN Expand4(lo) ELSE Expand4(Min2(15, lo + 1))

\* reduceETC1SProduce5BitColor on one channel
reduceETC1SProduce5BitColor(s0, s1) ==
  Expand5(((2 * (s0 + s1) * 31) + 4080) \div 8160)

\* reduce(rgbAvgs, produce5BitColor) on the three channels; corners is the
\* choice of reduceQuantize, bit c for channel c.  The operators below take
\* a tuple of such choices: for the 5-bit colours of the two halves and,
\* in encodeRGBSansAlpha, for their 4-bit colours.
Reduce(reduce, rgbAvgs, produce5BitColor, corners) ==
  [c \in 1..3 |->
     IF reduce = "reduceAverage"
     THEN reduceAverage(rgbAvgs[c], produce5BitColor)
     ELSE reduceQuantize(rgbAvgs[c], produce5BitColor,
                         (corners \div Pow2(c - 1)) % 2)]

\* uint64(d & 7) of an int32 d in -8..7
And7(d) == (d + 8) % 8

DiffFits_OffByOne(d) == (-4 <= d) /\ (d <= 4)

\* (-4 <= diff) && (diff <= +3)
DiffFits(d) == (-4 <= d) /\ (d <= 3)

\* The codeword encodeRGBSansAlpha builds for one flipBit, with the two
\* 5-bit bases of a Differential codeword.
SansAlphaCandidate(reduce, formatIsETC1S, flipBit, rgbAvgs0, rgbAvgs1, corners, table0, table1, idxHi, idxLo) ==
  LET base0 == IF formatIsETC1S
               THEN [c \in 1..3 |-> reduceETC1SProduce5BitColor(rgbAvgs0[c], rgbAvgs1[c])]
               ELSE Reduce(reduce, rgbAvgs0, TRUE, corners[1])
      base1 == IF formatIsETC1S THEN base0
               ELSE Reduce(reduce, rgbAvgs1, TRUE, corners[2])
      diff == [c \in 1..3 |-> (base1[c] \div 8) - (base0[c] \div 8)]
      tail == Or64(Shl64(table0, 40 - 3),
              Or64(Shl64(table1, 37 - 3),
              Or64(Shl64(flipBit, 33 - 1), U64Of32(idxHi, idxLo))))
  IN  IF DiffFits(diff[1]) /\ DiffFits(diff[2]) /\ DiffFits(diff[3])
      THEN [mode |-> "differential",
            base1 |-> [c \in 1..3 |-> base1[c] \div 8],
            code |-> Or64(Shl64(base0[1] \div 8, 64 - 5),
                     Or64(Shl64(And7(diff[1]), 59 - 3),
                     Or64(Shl64(base0[2] \div 8, 56 - 5),
                     Or64(Shl64(And7(diff[2]), 51 - 3),
                     Or64(Shl64(base0[3] \div 8, 48 - 5),
                     Or64(Shl64(And7(diff[3]), 43 - 3),
                     Or64(Shl64(1, 34 - 1), tail)))))))]
      ELSE LET i0 == Reduce(reduce, rgbAvgs0, FALSE, corners[3])
               i1 == Reduce(reduce, rgbAvgs1, FALSE, corners[4])
           IN  [mode |-> "individual",
                base1 |-> [c \in 1..3 |-> i1[c] \div 16],
                code |-> Or64(Shl64(i0[1] \div 16, 64 - 4),
                         Or64(Shl64(i1[1] \div 16, 60 - 4),
                         Or64(Shl64(i0[2] \div 16, 56 - 4),
                         Or64(Shl64(i1[2] \div 16, 52 - 4),
                         Or64(Shl64(i0[3] \div 16, 48 - 4),
                         Or64(Shl64(i1[3] \div 16, 44 - 4),
                         Or64(Shl64(0, 34 - 1), tail)))))))]

\* max(-4, min(+3, d))
ClampDiff(d) == IF d < -4 THEN -4 ELSE IF d > 3 THEN 3 ELSE d

\* The codeword encodeRGBWithAlpha builds for one flipBit, with encColor1.
WithAlphaCandidate(isTransparent, flipBit, avgColors0, avgColors1, corners, table0, table1, idxHi, idxLo) ==
  LET avgColorQuant0 == Reduce("reduceQuantize", avgColors0, TRUE, corners[1])
      avgColorQuant1 == Reduce("reduceQuantize", avgColors1, TRUE, corners[2])
      encColor0 == [c \in 1..3 |-> avgColorQuant0[c] \div 8]
      diff == [c \in 1..3 |-> ClampDiff((avgColorQuant1[c] \div 8) - encColor0[c])]
      encColor1 == [c \in 1..3 |-> encColor0[c] + diff[c]]
      c0 == Or64(Shl64(encColor0[1], 59),
            Or64(Shl64(And7(diff[1]), 56),
            Or64(Shl64(encColor0[2], 51),
            Or64(Shl64(And7(diff[2]), 48),
            Or64(Shl64(encColor0[3], 43),
                 Shl64(And7(diff[3]), 40))))))
      c1 == IF isTransparent THEN c0 ELSE Or64(c0, Shl64(1, 33))
      c2 == Or64(c1, Or64(Shl64(table0, 37),
                     Or64(Shl64(table1, 34), U64Of32(idxHi, idxLo))))
  IN  [mode |-> "differential",
       base1 |-> encColor1,
       code |-> IF flipBit = 0 THEN c2 ELSE Or64(c2, Shl64(1, 32))]


(***************************************************************************)
(* The specification of the Individual and Differential codewords.         *)
(***************************************************************************)
\* Averages in eighths: the ends of the range, and neighbours whose 5-bit
\* values differ by 3, by 4 and by more.
RedAverages == {0, 197, 263, 1020, 1810, 2040}

RgbAverages ==
  { <<r, g, b>> : r \in RedAverages, g \in {0, 2040}, b \in {197, 1810} }

CornerChoices == { <<0, 7, 7, 0>>, <<7, 0, 0, 7>>, <<5, 5, 2, 2>> }

DiffInputs ==
  { [api |-> "encodeRGBSansAlpha", reduce |-> rd, formatIsETC1S |-> FALSE,
     flipBit |-> fb, avgs0 |-> a0, avgs1 |-> a1, corners |-> k,
     table0 |-> 7 * fb, table1 |-> 5, idxHi |-> 43690, idxLo |-> 1] :
      rd \in {"reduceAverage", "reduceQuantize"}, fb \in {0, 1},
      a0 \in RgbAverages, a1 \in RgbAverages, k \in CornerChoices }
  \cup
  { [api |-> "encodeRGBSansAlpha", reduce |-> "reduceAverage", formatIsETC1S |-> TRUE,
     flipBit |-> 0, avgs0 |-> a0, avgs1 |-> a1, corners |-> <<0, 0, 0, 0>>,
     table0 |-> 3, table1 |-> 3, idxHi |-> 1, idxLo |-> 43690] :
      a0 \in RgbAverages, a1 \in RgbAverages }
  \cup
  { [api |-> "encodeRGBWithAlpha", isTransparent |-> tr,
     flipBit |-> fb, avgs0 |-> a0, avgs1 |-> a1, corners |-> k,
     table0 |-> 7 * fb, table1 |-> 2, idxHi |-> 43690, idxLo |-> 1] :
      tr \in BOOLEAN, fb \in {0, 1},
      a0 \in RgbAverages, a1 \in RgbAverages, k \in CornerChoices }

InitDiff ==
  /\ call \in DiffInputs
  /\ pc = call.api
  /\ blockX = 0
  /\ blockY = 0
  /\ dec = <<>>
  /\ Idle

EncodeRGBSansAlphaCall ==
  /\ pc = "encodeRGBSansAlpha"
  /\ dec' = << SansAlphaCandidate(call.reduce, call.formatIsETC1S, call.flipBit,
                                  call.avgs0, call.avgs1, call.corners,
                                  call.table0, call.table1, call.idxHi, call.idxLo) >>
  /\ pc' = "done"
  /\ UNCHANGED <<call, f, blockX, blockY, bufJ, buf, pixels, writes, nBlocks, ret, hdr>>

EncodeRGBWithAlphaCall ==
  /\ pc = "encodeRGBWithAlpha"
  /\ dec' = << WithAlphaCandidate(call.isTransparent, call.flipBit,
                                  call.avgs0, call.avgs1, call.corners,
                                  call.table0, call.table1, call.idxHi, call.idxLo) >>
  /\ pc' = "done"
  /\ UNCHANGED <<call, f, blockX, blockY, bufJ, buf, pixels, writes, nBlocks, ret, hdr>>

NextDiff ==
  \/ EncodeRGBSansAlphaCall
  \/ EncodeRGBWithAlphaCall

SpecDiff == InitDiff /\ [][NextDiff]_vars

\* The three channels' fields of a Differential codeword are sound: base
\* plus signed delta lies in 0..31 and is the second half's base.
NoOverflowPattern(code, base1) ==
  /\ DiffSum(code, 56) \in 0..31 /\ DiffSum(code, 56) = base1[1]
  /\ DiffSum(code, 48) \in 0..31 /\ DiffSum(code, 48) = base1[2]
  /\ DiffSum(code, 40) \in 0..31 /\ DiffSum(code, 40) = base1[3]

\* C16: no Individual or Differential codeword carries a T, H or Planar
\* overflow pattern: in every Differential codeword of encodeRGBSansAlpha
\* and every codeword of encodeRGBWithAlpha, for each of R, G and B the
\* 5-bit base plus the 3-bit signed delta lies in 0..31 and equals the
\* second half's 5-bit base; Individual codewords have bit 33 clear.
C16_NoOverflowPattern ==
  (pc = "done" /\ call.api \in {"encodeRGBSansAlpha", "encodeRGBWithAlpha"})
    => /\ (dec[1].mode = "differential") => NoOverflowPattern(dec[1].code, dec[1].base1)
       /\ (call.api = "encodeRGBSansAlpha")
            => (Bits64(dec[1].code, 33, 1) = 1) = (dec[1].mode = "differential")
       /\ (dec[1].mode = "individual") => (Bits64(dec[1].code, 33, 1) = 0)

\* C16 witness: a Differential codeword of encodeRGBSansAlpha whose red
\* delta is the largest that fits, +3, and whose blue delta is negative.
C16_Witness ==
  /\ pc = "done"
  /\ call.api = "encodeRGBSansAlpha"
  /\ dec[1].mode = "differential"
  /\ Bits64(dec[1].code, 56, 3) = 3
  /\ Bits64(dec[1].code, 40, 3) >= 4


(***************************************************************************)
(* lib/etc2: encodeAlpha, the 8-bit alpha codeword of ETC2-RGBA8.  The     *)
(* stream-level specification above keeps a codeword as a digest of the    *)
(* block; here the search and the packing are followed step by step.  The  *)
(* table alphaModifiers is a parameter: encodeAlpha multiplies its entries *)
(* by table >> 4, which is 0 for the first sixteen tables.                 *)
(***************************************************************************)
maxInt32 == 2147483647

min(a, b) == IF a < b THEN a ELSE b

max(a, b) == IF a > b THEN a ELSE b

\* clamp[i] for i in 0..1023: the 10-bit two's-complement value of i
\* saturated to 0..255.
clamp(i) == IF i < 256 THEN i ELSE IF i < 512 THEN 255 ELSE 0

\* e.pixels[(4*i)+3]
AlphaAt(px, i) == px[(4 * i) + 3]

adjustAlpha(rawAlpha, table, index, alphaModifiers) ==
  LET multiplier == table \div 16
      delta == multiplier * alphaModifiers[table % 16][index]
  IN  clamp((rawAlpha + delta) % 1024)

\* The inner loop for a > alpha: indexes 7 down to 4, left at the first
\* index that is worse than the one before.
RECURSIVE BestDiffAbove(_, _, _, _, _, _)
BestDiffAbove(a, alpha, table, alphaModifiers, index, bestDiff) ==
  IF index < 4 THEN bestDiff
  ELSE CHOOSE r \in
         { IF bestDiff >= d2
           THEN BestDiffAbove(a, alpha, table, alphaModifiers, index - 1, d2)
           ELSE bestDiff :
             d2 \in { (adjustAlpha(alpha, table, index, alphaModifiers) - a)
                        * (adjustAlpha(alpha, table, index, alphaModifiers) - a) } } : TRUE

\* The inner loop for a <= alpha: indexes 0 up to 3.
RECURSIVE BestDiffBelow(_, _, _, _, _, _)
BestDiffBelow(a, alpha, table, alphaModifiers, index, bestDiff) ==
  IF index > 3 THEN bestDiff
  ELSE CHOOSE r \in
         { IF bestDiff > d2
           THEN BestDiffBelow(a, alpha, table, alphaModifiers, index + 1, d2)
           ELSE bestDiff :
             d2 \in { (adjustAlpha(alpha, table, index, alphaModifiers) - a)
                        * (adjustAlpha(alpha, table, index, alphaModifiers) - a) } } : TRUE

PixelBestDiff(a, alpha, table, alphaModifiers) ==
  IF a > alpha
  THEN BestDiffAbove(a, alpha, table, alphaModifiers, 7, maxInt32)
  ELSE BestDiffBelow(a, alpha, table, alphaModifiers, 0, maxInt32)

\* xLoop: the sum over the pixels in the order x outer, y inner, left as
\* soon as it exceeds bestSum; k counts the pixels visited.
RECURSIVE BlockSum(_, _, _, _, _, _, _)
BlockSum(px, alpha, table, alphaModifiers, bestSum, k, sum) ==
  IF k = 16 THEN sum
  ELSE CHOOSE r \in
         { IF next > bestSum
           THEN next
           ELSE BlockSum(px, alpha, table, alphaModifiers, bestSum, k + 1, next) :
             next \in { sum + PixelBestDiff(AlphaAt(px, (4 * (k % 4)) + (k \div 4)),
                                            alpha, table, alphaModifiers) } } : TRUE

\* One iteration of the loop over alpha: st holds bestSum, bestTable,
\* bestAlpha, tableBestSum and tableAlpha.
TryAlpha(px, alphaModifiers, table, alpha, st) ==
  CHOOSE r \in
    { [tableBestSum |-> IF st.tableBestSum > sum THEN sum ELSE st.tableBestSum,
       tableAlpha   |-> IF st.tableBestSum > sum THEN alpha ELSE st.tableAlpha,
       bestSum      |-> IF st.bestSum > sum THEN sum ELSE st.bestSum,
       bestTable    |-> IF st.bestSum > sum THEN table ELSE st.bestTable,
       bestAlpha    |-> IF st.bestSum > sum THEN alpha ELSE st.bestAlpha] :
        sum \in { BlockSum(px, alpha, table, alphaModifiers, st.bestSum, 0, 0) } } : TRUE

RECURSIVE AlphaLoop(_, _, _, _, _, _, _)
AlphaLoop(px, alphaModifiers, table, alphaScale, alpha, alphaHi, st) ==
  IF alpha > alphaHi THEN st
  ELSE CHOOSE r \in
         { AlphaLoop(px, alphaModifiers, table, alphaScale, a2, alphaHi, n) :
             a2 \in { alpha + alphaScale },
             n \in { TryAlpha(px, alphaModifiers, table, alpha, st) } } : TRUE

\* One iteration of the loop over alphaScale.
ScaleStep(px, alphaModifiers, table, alphaScale, st) ==
  LET span == IF alphaScale = 16 THEN alphaScale * 4 ELSE alphaScale * 2
      alphaLo == max(0, min(255, st.tableAlpha - span))
      alphaHi == max(0, min(255, st.tableAlpha + span))
  IN  AlphaLoop(px, alphaModifiers, table, alphaScale, alphaLo, alphaHi, st)

\* One iteration of the loop over table: alphaScale is 16, then 4, then 1.
TableStep(px, alphaModifiers, table, prevAlpha, st) ==
  CHOOSE r \in
    { ScaleStep(px, alphaModifiers, table, 1, s4) :
        s4 \in { ScaleStep(px, alphaModifiers, table, 4, s16) :
                   s16 \in { ScaleStep(px, alphaModifiers, table, 16, s0) :
                               s0 \in { [st EXCEPT !.tableAlpha = prevAlpha,
                                                   !.tableBestSum = maxInt32] } } } } : TRUE

RECURSIVE TableLoop(_, _, _, _, _, _)
TableLoop(px, alphaModifiers, table, tableHi, prevAlpha, st) ==
  IF (table < tableHi) /\ (st.bestSum > 0)
  THEN CHOOSE r \in
         { TableLoop(px, alphaModifiers, t2, tableHi, prevAlpha, n) :
             t2 \in { table + 1 },
             n \in { TableStep(px, alphaModifiers, table, prevAlpha, st) } } : TRUE
  ELSE st

RECURSIVE AlphaSum(_, _)
AlphaSum(px, i) == IF i = 16 THEN 0 ELSE AlphaAt(px, i) + AlphaSum(px, i + 1)

Abs(d) == IF d < 0 THEN -d ELSE d

\* bestSum, bestTable and bestAlpha after the search.
AlphaSearch(px, alphaModifiers) ==
  LET alpha == (AlphaSum(px, 0) + 8) \div 16
      dists == { Abs(AlphaAt(px, i) - alpha) : i \in 0..15 }
      maxDist == CHOOSE d \in dists : \A e \in dists : e <= d
      approxPos == min(255, ((maxDist * 255) \div 160) - 4)
      tableLo == max(0, approxPos - 15)
      tableHi == max(0, min(255, approxPos + 15))
  IN  CHOOSE r \in
        { TableLoop(px, alphaModifiers, lo, hi, a, st) :
            lo \in { tableLo }, hi \in { tableHi }, a \in { alpha },
            st \in { [bestSum |-> maxInt32, bestTable |-> 0, bestAlpha |-> 0,
                      tableBestSum |-> maxInt32, tableAlpha |-> alpha] } } : TRUE

\* The final loop's bestIndex: the first of the indexes 0..7 that is
\* nearest to a.
BestIndex(a, bestAlpha, bestTable, alphaModifiers) ==
  LET d2 == [index \in 0..7 |->
               (adjustAlpha(bestAlpha, bestTable, index, alphaModifiers) - a)
                 * (adjustAlpha(bestAlpha, bestTable, index, alphaModifiers) - a)]
  IN  CHOOSE index \in 0..7 :
        \A j \in 0..7 : (d2[index] < d2[j]) \/ ((d2[index] = d2[j]) /\ (index <= j))

\* a ^ b
BitXor(a, b) == BitOr(a, b) - BitAnd(a, b)

\* A variant that lays the pixels out row by row.
AlphaShift_RowMajor(i) ==
  BitOr(BitXor(BitAnd(i, 3), 3), BitXor(i \div 4, 3) * 4) * 3

\* shift of pixel i: (((x ^ 3) * 4) | (y ^ 3)) * 3 with x = i & 3, y = i >> 2
AlphaShift(i) ==
  BitOr(BitXor(BitAnd(i, 3), 3) * 4, BitXor(i \div 4, 3)) * 3

RECURSIVE OrIndexes(_, _, _)
OrIndexes(bestIndex, i, code) ==
  IF i = 16 THEN code
  ELSE CHOOSE r \in
         { OrIndexes(bestIndex, i + 1, c) :
             c \in { Or64(code, Shl64(bestIndex[i], AlphaShift(i))) } } : TRUE

\* A variant that stores the table above the base alpha.
PackAlpha_TableFirst(bestAlpha, bestTable, bestIndex) ==
  OrIndexes(bestIndex, 0, Or64(Shl64(bestAlpha, 48), Shl64(bestTable, 56)))

PackAlpha(bestAlpha, bestTable, bestIndex) ==
  OrIndexes(bestIndex, 0, Or64(Shl64(bestAlpha, 56), Shl64(bestTable, 48)))

\* encodeAlpha's return value.
encodeAlphaBits(px, alphaModifiers) ==
  CHOOSE r \in
    { PackAlpha(s.bestAlpha, s.bestTable,
                [i \in 0..15 |-> BestIndex(AlphaAt(px, i), s.bestAlpha, s.bestTable,
                                           alphaModifiers)]) :
        s \in { AlphaSearch(px, alphaModifiers) } } : TRUE


(***************************************************************************)
(* The specification of encodeAlpha.                                       *)
(***************************************************************************)
AlphaBases == {0, 3, 100, 128, 252, 255}

\* The alpha of pixel i: uniform blocks, blocks with one or with eight
\* pixels a little off the others, and a block of both extremes.
AlphaPattern(base, kind, i) ==
  LET toward == IF base >= 128 THEN -1 ELSE 1
  IN  CASE kind = "uniform" -> base
        [] kind = "one"     -> IF i = 5 THEN base + (3 * toward) ELSE base
        [] kind = "checker" -> IF (i + (i \div 4)) % 2 = 0 THEN base ELSE base + (2 * toward)
        [] kind = "halves"  -> IF i < 8 THEN 0 ELSE 255

AlphaBlocks ==
  { [k \in 0..63 |-> IF k % 4 = 3 THEN AlphaPattern(base, kind, k \div 4) ELSE c] :
      base \in AlphaBases, kind \in {"uniform", "one", "checker", "halves"},
      c \in {0, 90, 255} }

\* Candidate values of alphaModifiers, sixteen tables of eight entries.
AlphaModifierTables ==
  { [t \in 0..15 |-> [i \in 0..7 |-> 0]],
    [t \in 0..15 |-> [i \in 0..7 |-> IF i < 4 THEN -((3 * (i + 1)) + t)
                                              ELSE (3 * (i - 3)) + t - 1]] }

InitAlpha ==
  /\ call \in { [api |-> "encodeAlpha", pixels |-> b, alphaModifiers |-> m] :
                  b \in AlphaBlocks, m \in AlphaModifierTables }
  /\ pc = "encodeAlpha"
  /\ blockX = 0
  /\ blockY = 0
  /\ dec = <<>>
  /\ Idle

EncodeAlphaCall ==
  /\ pc = "encodeAlpha"
  /\ dec' = << encodeAlphaBits(call.pixels, call.alphaModifiers) >>
  /\ pc' = "done"
  /\ UNCHANGED <<call, f, blockX, blockY, bufJ, buf, pixels, writes, nBlocks, ret, hdr>>

NextAlpha == EncodeAlphaCall

SpecAlpha == InitAlpha /\ [][NextAlpha]_vars

\* encodeAlpha has returned for a block whose sixteen alpha values are 0xFF.
OpaqueBlockEncoded ==
  /\ pc = "done"
  /\ call.api = "encodeAlpha"
  /\ \A i \in 0..15 : AlphaAt(call.pixels, i) = 255

\* C17: for a block whose 16 source alpha values are all 0xFF, the alpha
\* codeword produced for ETC2-RGBA8 is FF FF 00 00 00 00 00 00.
C17_OpaqueAlphaCodeword ==
  OpaqueBlockEncoded
    => BigEndian(dec[1]) = <<255, 255, 0, 0, 0, 0, 0, 0>>

\* C17, as the code has it: for a block whose 16 source alpha values are
\* all 0xFF, the alpha codeword is FF 00 00 00 00 00 00 00: base alpha
\* 0xFF, table byte 0 and index 0 for every pixel.
C17_OpaqueAlphaCodewordIsFF00 ==
  OpaqueBlockEncoded
    => BigEndian(dec[1]) = <<255, 0, 0, 0, 0, 0, 0, 0>>

\* C17 witness: an all-opaque block with coloured pixels has been encoded
\* under a table of non-zero modifiers.
C17_Witness ==
  /\ OpaqueBlockEncoded
  /\ call.pixels[0] = 90
  /\ call.alphaModifiers[0][0] # 0


(***************************************************************************)
(* lib/etc2: encodeColor, the driver that tries the sub-encoders in turn.  *)
(* sub gives, for each call site, the codeword the sub-encoder returns and *)
(* the pixels decodeColor writes to e.work for it.  The sites are A1, T1,  *)
(* H1 and B1 (the one-bit-alpha calls), A and Q (encodeRGBSansAlpha), P    *)
(* (encodePlanar), T and H, and U and I (T and H with goHarder).           *)
(***************************************************************************)
\* A variant with a heavier blue weight.
weightValuesI32_Heavier == <<299, 587, 115>>

weightValuesI32 == <<299, 587, 114>>

hasTransparentPixelsWhenUsingOneBitAlpha(px) ==
  \E i \in 0..15 : px[(4 * i) + 3] < 128

\* The loss of one pixel, i the offset of its first byte.
PixelLoss(px, work, i) ==
  (weightValuesI32[1] * (px[i] - work[i]) * (px[i] - work[i]))
  + (weightValuesI32[2] * (px[i + 1] - work[i + 1]) * (px[i + 1] - work[i + 1]))
  + (weightValuesI32[3] * (px[i + 2] - work[i + 2]) * (px[i + 2] - work[i + 2]))

RECURSIVE BlockLossFrom(_, _, _, _)
BlockLossFrom(px, work, formatIsOneBitAlpha, k) ==
  IF k = 16 THEN 0
  ELSE (IF formatIsOneBitAlpha /\ (px[(4 * k) + 3] < 128)
        THEN 0 ELSE PixelLoss(px, work, 4 * k))
       + BlockLossFrom(px, work, formatIsOneBitAlpha, k + 1)

calculateBlockLoss(px, work, formatIsOneBitAlpha) ==
  BlockLossFrom(px, work, formatIsOneBitAlpha, 0)

\* A variant of the comparison that lets a later candidate win a tie.
Better_OrEqual(bestLoss, loss) == bestLoss >= loss

\* if bestLoss > lossX
Better(bestLoss, loss) == bestLoss > loss

\* One candidate: decodeColor, calculateBlockLoss and the comparison.
TryCandidate(px, sub, formatIsOneBitAlpha, best, site) ==
  CHOOSE r \in
    { IF Better(best.loss, loss)
      THEN [code |-> sub[site].code, loss |-> loss, site |-> site,
            tried |-> Append(best.tried, site)]
      ELSE [best EXCEPT !.tried = Append(best.tried, site)] :
        loss \in { calculateBlockLoss(px, sub[site].work, formatIsOneBitAlpha) } } : TRUE

RECURSIVE TryCandidates(_, _, _, _, _)
TryCandidates(px, sub, formatIsOneBitAlpha, best, sites) ==
  IF sites = <<>> THEN best
  ELSE CHOOSE r \in
         { TryCandidates(px, sub, formatIsOneBitAlpha, b, Tail(sites)) :
             b \in { TryCandidate(px, sub, formatIsOneBitAlpha, best, Head(sites)) } } : TRUE

\* The first candidate is taken without a comparison.
FirstCandidate(px, sub, formatIsOneBitAlpha, site) ==
  [code |-> sub[site].code,
   loss |-> calculateBlockLoss(px, sub[site].work, formatIsOneBitAlpha),
   site |-> site, tried |-> <<site>>]

\* A variant that runs the harder T whether or not T was taken.
TryETC2Modes_AlwaysHarderT(px, sub, formatIsOneBitAlpha, best) ==
  TryCandidates(px, sub, formatIsOneBitAlpha, best, <<"P", "T", "H", "U">>)

\* Planar, T and H, then the harder search of whichever of T and H was
\* taken last.
TryETC2Modes(px, sub, formatIsOneBitAlpha, best) ==
  CHOOSE r \in
    { IF b.site = "T" THEN TryCandidate(px, sub, formatIsOneBitAlpha, b, "U")
      ELSE IF b.site = "H" THEN TryCandidate(px, sub, formatIsOneBitAlpha, b, "I")
      ELSE b :
        b \in { TryCandidates(px, sub, formatIsOneBitAlpha, best, <<"P", "T", "H">>) } } : TRUE

\* encodeColor: the best candidate, with the sites tried in order.
encodeColorChoice(fmt, px, sub) ==
  IF fmt = FormatETC2RGBA1
  THEN CHOOSE r \in
         { IF hasTransparentPixelsWhenUsingOneBitAlpha(px) THEN b
           ELSE TryETC2Modes(px, sub, TRUE, TryCandidate(px, sub, TRUE, b, "B1")) :
             b \in { TryCandidates(px, sub, TRUE, FirstCandidate(px, sub, TRUE, "A1"),
                                   <<"T1", "H1">>) } } : TRUE
  ELSE IF fmt = FormatETC1S THEN FirstCandidate(px, sub, FALSE, "A")
  ELSE CHOOSE r \in
         { IF BitAnd(fmt, formatBitsETC2) # formatBitsETC2 THEN b
           ELSE TryETC2Modes(px, sub, FALSE, b) :
             b \in { TryCandidate(px, sub, FALSE, FirstCandidate(px, sub, FALSE, "A"), "Q") } } : TRUE


(***************************************************************************)
(* The specification of encodeColor.                                       *)
(***************************************************************************)
\* The call sites encodeColor can reach for a format.
SitesOf(fmt) ==
  IF fmt = FormatETC2RGBA1
  THEN {"A1", "T1", "H1", "B1", "P", "T", "H", "U", "I"}
  ELSE IF fmt = FormatETC1S THEN {"A"}
  ELSE IF BitAnd(fmt, formatBitsETC2) # formatBitsETC2 THEN {"A", "Q"}
  ELSE {"A", "Q", "P", "T", "H", "U", "I"}

SiteNumber(site) ==
  CASE site = "A1" -> 1 [] site = "T1" -> 2 [] site = "H1" -> 3 [] site = "B1" -> 4
    [] site = "A" -> 5 [] site = "Q" -> 6 [] site = "P" -> 7 [] site = "T" -> 8
    [] site = "H" -> 9 [] site = "U" -> 10 [] site = "I" -> 11

\* Source blocks: greys between and at the decoded levels, the second with
\* two pixels below the alpha threshold.
ColorBlocks ==
  { [k \in 0..63 |-> IF k % 4 = 3 THEN 255 ELSE 24],
    [k \in 0..63 |-> IF k % 4 = 3 THEN (IF k \in {3, 43} THEN 127 ELSE 128)
                     ELSE IF k < 32 THEN 20 ELSE 16],
    [k \in 0..63 |-> IF k % 4 = 3 THEN 255 ELSE IF k % 4 = 1 THEN 27 ELSE 21] }

\* What decodeColor can leave in e.work: here a flat grey.
DecodedLevels == {16, 32}

\* A sub-encoder's codeword stands for its site and its decoded level.
SubResults(fmt) ==
  { [site \in SitesOf(fmt) |->
       [code |-> <<lvl[site], SiteNumber(site), 0, 0>>,
        work |-> [k \in 0..63 |-> lvl[site]]]] :
      lvl \in [SitesOf(fmt) -> DecodedLevels] }

ColorFormats ==
  {FormatETC1S, FormatETC1, FormatETC2RGB, FormatETC2RGBA1, FormatETC2RGBA8}

InitColor ==
  /\ call \in UNION { { [api |-> "encodeColor", f |-> fmt, pixels |-> b, sub |-> s] :
                          b \in ColorBlocks, s \in SubResults(fmt) } :
                        fmt \in ColorFormats }
  /\ pc = "encodeColor"
  /\ blockX = 0
  /\ blockY = 0
  /\ dec = <<>>
  /\ Idle

EncodeColorCall ==
  /\ pc = "encodeColor"
  /\ dec' = << encodeColorChoice(call.f, call.pixels, call.sub) >>
  /\ pc' = "done"
  /\ UNCHANGED <<call, f, blockX, blockY, bufJ, buf, pixels, writes, nBlocks, ret, hdr>>

NextColor == EncodeColorCall

SpecColor == InitColor /\ [][NextColor]_vars

\* The loss of the candidate of a site, recomputed from its decoded pixels.
RecomputedLoss(site) ==
  calculateBlockLoss(call.pixels, call.sub[site].work, call.f = FormatETC2RGBA1)

\* C19: the codeword encodeColor returns is one of the candidates it tried,
\* its loss recomputed from the decoded pixels is less than or equal to
\* that of every other candidate tried, and the earliest-tried candidate
\* wins ties.
C19_BestCandidateWins ==
  (pc = "done" /\ call.api = "encodeColor")
    => LET tried == dec[1].tried IN
       \E k \in 1..Len(tried) :
         /\ dec[1].code = call.sub[tried[k]].code
         /\ dec[1].loss = RecomputedLoss(tried[k])
         /\ \A m \in 1..Len(tried) :
              /\ RecomputedLoss(tried[k]) <= RecomputedLoss(tried[m])
              /\ (RecomputedLoss(tried[k]) = RecomputedLoss(tried[m])) => (k <= m)

\* C19 witness: encodeColor has tried eight candidates and returned one of
\* the later ones, which ties with the candidate tried after it.
C19_Witness ==
  /\ pc = "done"
  /\ call.api = "encodeColor"
  /\ Len(dec[1].tried) = 8
  /\ dec[1].site = "T"
  /\ RecomputedLoss("U") = dec[1].loss


(***************************************************************************)
(* lib/etc2: encodeRGBWithAlpha in full, for blocks whose sixteen pixels   *)
(* weigh the same (all at or above the alpha threshold, or all below it    *)
(* with RGB 0): the weighted average of a half is then the plain average   *)
(* of its eight pixels, a number of eighths.  The table modifiers is a     *)
(* parameter.                                                              *)
(***************************************************************************)
\* A variant that leaves the indexes unscrambled.
scramble_Identity == <<0, 1, 2, 3>>

\* scramble[j] is scramble[j + 1] here.
scramble == <<3, 2, 0, 1>>

\* The half of pixel (x, y): j in the averaging loop, half in the search.
HalfOf(flipBit, x, y) == IF flipBit = 0 THEN x \div 2 ELSE y \div 2

\* avgColors[j][c] in eighths: the sum of channel c over the half's pixels.
RECURSIVE HalfSum(_, _, _, _, _)
HalfSum(px, flipBit, j, c, i) ==
  IF i = 16 THEN 0
  ELSE (IF HalfOf(flipBit, i % 4, i \div 4) = j THEN px[(4 * i) + c] ELSE 0)
       + HalfSum(px, flipBit, j, c, i + 1)

HalfAverages(px, flipBit, j) == [c \in 1..3 |-> HalfSum(px, flipBit, j, c - 1, 0)]

\* reduceQuantize's loss of one combination of corners, times 64, as the
\* pair <<thousands, rest>>; the deltas are in eighths.
QuantizeLoss(drg, dgb, dbr) ==
  LET wrg == weightValuesI32[1] * weightValuesI32[2]
      wgb == weightValuesI32[2] * weightValuesI32[3]
      wbr == weightValuesI32[3] * weightValuesI32[1]
      thousands == ((wrg \div 1000) * drg * drg) + ((wgb \div 1000) * dgb * dgb)
                   + ((wbr \div 1000) * dbr * dbr)
      rest == ((wrg % 1000) * drg * drg) + ((wgb % 1000) * dgb * dgb)
              + ((wbr % 1000) * dbr * dbr)
  IN  << thousands + (rest \div 1000), rest % 1000 >>

LossLess(p, q) == (p[1] < q[1]) \/ ((p[1] = q[1]) /\ (p[2] < q[2]))

\* The losses of the eight combinations of corners; bit c - 1 of i is the
\* corner of channel c, delta[c][hi] the distance of a corner in eighths.
QuantizeLosses(delta) ==
  [i \in 0..7 |->
     LET dr == delta[1][i % 2]
         dg == delta[2][(i \div 2) % 2]
         db == delta[3][(i \div 4) % 2]
     IN  QuantizeLoss(dr - dg, dg - db, db - dr)] @@ << >>

\* reduceQuantize's choice of corners: the first of the eight combinations
\* whose loss no other undercuts.
QuantizeChoice(rgbAvgs, produce5BitColor) ==
  CHOOSE i \in 0..7 :
    \A loss \in { QuantizeLosses(
                    [c \in 1..3 |-> [hi \in 0..1 |->
                       (8 * reduceQuantize(rgbAvgs[c], produce5BitColor, hi)) - rgbAvgs[c]]]) } :
      \A k \in 0..7 : LossLess(loss[i], loss[k])
                      \/ ((loss[i] = loss[k]) /\ (i <= k))

\* errJ of the four indexes of one pixel under one table.
PixelErrors(px, i, baseCol, table, isTransparent, modifiers) ==
  [j \in 0..3 |->
     LET mod == modifiers[table][scramble[j + 1]]
         err == [c \in 1..3 |->
                   (IF (j = 2) /\ isTransparent THEN baseCol[c]
                    ELSE max(0, min(255, baseCol[c] + mod)))
                   - px[(4 * i) + c - 1]]
     IN  (err[1] * err[1]) + (err[2] * err[2]) + (err[3] * err[3])] @@ << >>

\* The search of one pixel under one table: bestJ and bestErrJ.
PixelChoice(px, i, baseCol, table, isTransparent, modifiers) ==
  IF px[(4 * i) + 3] < 128
  THEN [bestJ |-> 1, bestErrJ |-> 0]
  ELSE CHOOSE r \in
         { [bestJ |-> j, bestErrJ |-> errJ[j]] :
             j \in IF isTransparent THEN {0, 2, 3} ELSE 0..3,
             errJ \in { PixelErrors(px, i, baseCol, table, isTransparent, modifiers) } } :
           \A k \in IF isTransparent THEN {0, 2, 3} ELSE 0..3 :
             \A errJ \in { PixelErrors(px, i, baseCol, table, isTransparent, modifiers) } :
               (errJ[r.bestJ] < errJ[k]) \/ ((errJ[r.bestJ] = errJ[k]) /\ (r.bestJ <= k))

\* tabError[half] from the choices at the sixteen positions.
RECURSIVE TabError(_, _, _, _)
TabError(at, flipBit, half, p) ==
  IF p = 16 THEN 0
  ELSE (IF HalfOf(flipBit, p \div 4, p % 4) = half THEN at[p].bestErrJ ELSE 0)
       + TabError(at, flipBit, half, p + 1)

\* One table's result: for the position (4*x)+y of each pixel its
\* pixelIndex, and tabError of both halves.
TableResult(px, flipBit, bases, table, isTransparent, modifiers) ==
  CHOOSE r \in
    { [pixelIndex |-> [p \in 0..15 |-> scramble[at[p].bestJ + 1]] @@ << >>,
       tabError |-> [half \in 0..1 |-> TabError(at, flipBit, half, 0)] @@ << >>] :
        at \in { [p \in 0..15 |->
                    PixelChoice(px, (4 * (p % 4)) + (p \div 4),
                                bases[HalfOf(flipBit, p \div 4, p % 4) + 1],
                                table, isTransparent, modifiers)] @@ << >> } } : TRUE

\* The sum of bit b of index[p] << p over the positions from p on.
RECURSIVE IndexBits(_, _, _)
IndexBits(index, b, p) ==
  IF p = 16 THEN 0
  ELSE (((index[p] \div Pow2(b)) % 2) * Pow2(p)) + IndexBits(index, b, p + 1)

\* bestTable: a half keeps the first table whose tabError no other
\* undercuts.
BestTables(res) ==
  [half \in 0..1 |->
     CHOOSE t \in 0..7 :
       \A u \in 0..7 :
         (res[t].tabError[half] < res[u].tabError[half])
         \/ ((res[t].tabError[half] = res[u].tabError[half]) /\ (t <= u))] @@ << >>

\* The error and the codeword of one flipBit once the tables are searched.
WithAlphaPacked(isTransparent, flipBit, avgs, corners, res, bestTable) ==
  CHOOSE r \in
    { [err |-> res[bestTable[0]].tabError[0] + res[bestTable[1]].tabError[1],
       code |-> WithAlphaCandidate(isTransparent, flipBit, avgs[1], avgs[2], corners,
                                   bestTable[0], bestTable[1],
                                   IndexBits(bestIndexes, 1, 0),
                                   IndexBits(bestIndexes, 0, 0)).code] :
        bestIndexes \in
          { [p \in 0..15 |->
               res[bestTable[HalfOf(flipBit, p \div 4, p % 4)]].pixelIndex[p]] @@ << >> } } : TRUE

\* The search over the eight tables for given base colours.
WithAlphaSearch(px, isTransparent, flipBit, modifiers, avgs, corners, plain) ==
  CHOOSE r \in
    { CHOOSE q \in { WithAlphaPacked(isTransparent, flipBit, avgs, corners, res, bestTable) :
                       bestTable \in { BestTables(res) } } : TRUE :
        res \in { [table \in 0..7 |->
                     TableResult(px, flipBit,
                                 << [c \in 1..3 |->
                                       Expand5(Bits64(plain.code, 67 - (8 * c), 5))] @@ << >>,
                                    [c \in 1..3 |-> Expand5(plain.base1[c])] @@ << >> >>,
                                 table, isTransparent, modifiers)] @@ << >> } } : TRUE

\* One iteration of the loop over flipBit: the error and the codeword.
WithAlphaFlip(px, isTransparent, flipBit, modifiers) ==
  CHOOSE r \in
    { CHOOSE q \in
        { WithAlphaSearch(px, isTransparent, flipBit, modifiers, avgs, corners, plain) :
            plain \in { WithAlphaCandidate(isTransparent, flipBit, avgs[1], avgs[2],
                                           corners, 0, 0, 0, 0) } } : TRUE :
        avgs \in { << HalfAverages(px, flipBit, 0) @@ << >>,
                      HalfAverages(px, flipBit, 1) @@ << >> >> },
        corners \in { << QuantizeChoice(HalfAverages(px, flipBit, 0), TRUE),
                         QuantizeChoice(HalfAverages(px, flipBit, 1), TRUE) >> } } : TRUE

\* encodeRGBWithAlpha's return value.
encodeRGBWithAlpha(px, isTransparent, modifiers) ==
  CHOOSE r \in
    { IF norm.err <= flip.err THEN norm.code ELSE flip.code :
        norm \in { WithAlphaFlip(px, isTransparent, 0, modifiers) },
        flip \in { WithAlphaFlip(px, isTransparent, 1, modifiers) } } : TRUE


(***************************************************************************)
(* The specification of encodeColor for ETC2-RGBA1 with the codewords of   *)
(* encodeRGBWithAlpha computed in full.                                    *)
(***************************************************************************)
\* Blocks of equal weights: all pixels below the alpha threshold with RGB
\* 0, or all at or above it.
OneBitAlphaBlocks ==
  { [k \in 0..63 |-> IF k % 4 = 3 THEN a ELSE 0] : a \in {0, 1, 127} }
  \cup
  { [k \in 0..63 |-> IF (k % 4 = 3) /\ (k \div 4 = 6) THEN 127 ELSE 0] }
  \cup
  { [k \in 0..63 |-> IF k % 4 = 3 THEN a
                     ELSE IF (k \div 4) % 4 < 2 THEN c ELSE d] :
      a \in {128, 255}, c \in {0, 200}, d \in {0, 90, 255} }

\* Candidate values of modifiers, eight tables of four entries.
ModifierTables ==
  { [t \in 0..7 |-> [k \in 0..3 |-> 0]],
    [t \in 0..7 |-> [k \in 0..3 |-> IF k = 0 THEN 2 + t
                                    ELSE IF k = 1 THEN 8 + (3 * t)
                                    ELSE IF k = 2 THEN -(2 + t)
                                    ELSE -(8 + (3 * t))]] }

\* The results at the nine call sites: those of encodeRGBWithAlpha are
\* computed, the others stand for their site and decoded level.
OneBitAlphaSubResults(px, modifiers) ==
  { [site \in SitesOf(FormatETC2RGBA1) |->
       [code |-> IF site = "A1" THEN codeA
                 ELSE IF site = "B1" THEN codeB
                 ELSE <<lvl[site], SiteNumber(site), 0, Pow2(15)>>,
        work |-> [k \in 0..63 |-> lvl[site]]]] :
      codeA \in { encodeRGBWithAlpha(px, TRUE, modifiers) },
      codeB \in { encodeRGBWithAlpha(px, FALSE, modifiers) },
      lvl \in { l \in [SitesOf(FormatETC2RGBA1) -> DecodedLevels] :
                  \A site \in SitesOf(FormatETC2RGBA1) \ {"A1", "T1", "H1"} : l[site] = 16 } }

InitOneBitAlpha ==
  /\ call \in UNION { { [api |-> "encodeColorRGBA1", f |-> FormatETC2RGBA1,
                         pixels |-> b, modifiers |-> m, sub |-> s] :
                          s \in OneBitAlphaSubResults(b, m) } :
                        b \in OneBitAlphaBlocks, m \in ModifierTables }
  /\ pc = "encodeColorRGBA1"
  /\ blockX = 0
  /\ blockY = 0
  /\ dec = <<>>
  /\ Idle

EncodeColorOneBitAlphaCall ==
  /\ pc = "encodeColorRGBA1"
  /\ dec' = << encodeColorChoice(call.f, call.pixels, call.sub) >>
  /\ pc' = "done"
  /\ UNCHANGED <<call, f, blockX, blockY, bufJ, buf, pixels, writes, nBlocks, ret, hdr>>

NextOneBitAlpha == EncodeColorOneBitAlphaCall

SpecOneBitAlpha == InitOneBitAlpha /\ [][NextOneBitAlpha]_vars

\* The 2-bit index the codeword carries for the pixel at position (4*x)+y.
PixelIndexOf(code, p) == (2 * Bits64(code, p + 16, 1)) + Bits64(code, p, 1)

\* The decoder's rule for ETC2-RGBA1: with the opaque bit clear, index 2
\* is a transparent pixel with RGB 0.
TransparentTexel(code, p) == (Bits64(code, 33, 1) = 0) /\ (PixelIndexOf(code, p) = 2)

\* encodeColor has returned for a block of sixteen pixels (0,0,0,0).
ZeroBlockEncoded ==
  /\ pc = "done"
  /\ call.api = "encodeColorRGBA1"
  /\ \A k \in 0..63 : call.pixels[k] = 0

\* C18: a block whose 16 pixels are all (0,0,0,0), encoded as ETC2-RGBA1,
\* yields a codeword with the opaque bit (bit 33) clear in which every
\* pixel carries the reserved index 2, so that it decodes to 16
\* transparent pixels with RGB 0.
C18_ZeroBlockIsTransparent ==
  ZeroBlockEncoded
    => /\ Bits64(dec[1].code, 33, 1) = 0
       /\ \A p \in 0..15 : PixelIndexOf(dec[1].code, p) = 2
       /\ \A p \in 0..15 : TransparentTexel(dec[1].code, p)
       /\ \A c \in {59, 51, 43} : Bits64(dec[1].code, c, 5) = 0

\* C18 witness: the all-zero block has been encoded while the T and H
\* candidates decode to something else than the first candidate.
C18_Witness ==
  /\ ZeroBlockEncoded
  /\ call.sub["T1"].work[0] # call.sub["A1"].work[0]
  /\ call.modifiers[0][0] # 0


(***************************************************************************)
(* The specification of Format.NewImage called on its own.                 *)
(***************************************************************************)
\* Sizes around 0, around a multiple of 4 and around 65536.
ImageWidths == {-1, 0, 1, 4, 5, 65532, 65533, 65535, 65536, 65537}

ImageHeights == {-1, 0, 3, 65535, 65536}

InitNewImage ==
  /\ call \in { [api |-> "NewImage", f |-> fmt, W |-> w, H |-> h] :
                  fmt \in DefinedFormats \cup {FormatInvalid},
                  w \in ImageWidths, h \in ImageHeights }
  /\ pc = "NewImage"
  /\ blockX = 0
  /\ blockY = 0
  /\ dec = <<>>
  /\ Idle

NewImageCall ==
  /\ pc = "NewImage"
  /\ dec' = << NewImage(call.f, call.W, call.H) >>
  /\ pc' = "done"
  /\ UNCHANGED <<call, f, blockX, blockY, bufJ, buf, pixels, writes, nBlocks, ret, hdr>>

NextNewImage == NewImageCall

SpecNewImage == InitNewImage /\ [][NextNewImage]_vars

\* v rounded up to a multiple of 4
RoundedUpTo4(v) == 4 * ((v + 3) \div 4)

\* The concrete image type that matches a format.
MatchingType(fmt) ==
  IF fmt \in {FormatETC2RGBA8, FormatETC2SRGBA8} THEN "NRGBA"
  ELSE IF fmt \in {FormatETC2R11Unsigned, FormatETC2R11Signed} THEN "Gray16"
  ELSE IF fmt \in {FormatETC2RG11Unsigned, FormatETC2RG11Signed} THEN "RGBA64"
  ELSE "RGBA"

\* C20: Format.NewImage, for a valid Format, returns an error if the width
\* or height is negative or above 65536, and otherwise returns an image
\* whose bounds are (0,0)-(width and height rounded up to a multiple of 4)
\* and whose concrete type matches the format; for an invalid Format it
\* returns BadArgument.
C20_NewImageContract ==
  (pc = "done" /\ call.api = "NewImage")
    => IF call.f = FormatInvalid
       THEN dec[1].err = "ErrBadArgument"
       ELSE IF (call.W < 0) \/ (call.W > 65536) \/ (call.H < 0) \/ (call.H > 65536)
       THEN dec[1].err # "nil"
       ELSE /\ dec[1].err = "nil"
            /\ dec[1].rect = Rect(RoundedUpTo4(call.W), RoundedUpTo4(call.H))
            /\ dec[1].type = MatchingType(call.f)


(***************************************************************************)
(* lib/etc2: encodeRGBSansAlpha in full: the averages of the two halves,   *)
(* their reduction, the table and index search of encodeHalfBlock and the  *)
(* choice between the two flip orientations.  The table modifiers is a     *)
(* parameter.                                                              *)
(***************************************************************************)
perOrientationPixelsOffsets ==
  << <<0, 16, 32, 48, 4, 20, 36, 52>>,
     <<8, 24, 40, 56, 12, 28, 44, 60>>,
     <<0, 16, 4, 20, 8, 24, 12, 28>>,
     <<32, 48, 36, 52, 40, 56, 44, 60>> >>

perOrientationShifts ==
  << <<0, 1, 2, 3, 4, 5, 6, 7>>,
     <<8, 9, 10, 11, 12, 13, 14, 15>>,
     <<0, 1, 4, 5, 8, 9, 12, 13>>,
     <<2, 3, 6, 7, 10, 11, 14, 15>> >>

\* The averages of a half in eighths: the sums of its eight pixels.
calculateRGBAverages(px, orientation) ==
  [c \in 1..3 |->
     LET at(i) == px[perOrientationPixelsOffsets[orientation + 1][i] + c - 1]
     IN  at(1) + at(2) + at(3) + at(4) + at(5) + at(6) + at(7) + at(8)] @@ << >>

\* oneLoss of the four modifiers of a table for the pixel at offset.
OneLosses(px, offset, base, table, modifiers) ==
  [j \in 0..3 |->
     LET delta == [c \in 1..3 |->
                     clamp((base[c] + modifiers[table][j]) % 1024) - px[offset + c - 1]]
     IN  (weightValuesI32[1] * delta[1] * delta[1])
         + (weightValuesI32[2] * delta[2] * delta[2])
         + (weightValuesI32[3] * delta[3] * delta[3])] @@ << >>

\* bestJ: the first j, in the order of scramble, that no other undercuts.
BestJ(oneLoss) ==
  scramble[CHOOSE pos \in 1..4 :
             \A q \in 1..4 :
               (oneLoss[scramble[pos]] < oneLoss[scramble[q]])
               \/ ((oneLoss[scramble[pos]] = oneLoss[scramble[q]]) /\ (pos <= q))]

\* The sum of fn[i] over i..8.
RECURSIVE SumFrom(_, _)
SumFrom(fn, i) == IF i > 8 THEN 0 ELSE fn[i] + SumFrom(fn, i + 1)

\* indexes, as its two 16-bit halves, and loss for one table.
encodeHalfBlock1(px, orientation, base, table, modifiers) ==
  CHOOSE r \in
    { [hi |-> SumFrom([i \in 1..8 |-> (best[i].j \div 2)
                                       * Pow2(perOrientationShifts[orientation + 1][i])], 1),
       lo |-> SumFrom([i \in 1..8 |-> (best[i].j % 2)
                                       * Pow2(perOrientationShifts[orientation + 1][i])], 1),
       loss |-> SumFrom([i \in 1..8 |-> best[i].loss], 1)] :
        best \in
          { [i \in 1..8 |->
               CHOOSE b \in
                 { [j |-> BestJ(oneLoss), loss |-> oneLoss[BestJ(oneLoss)]] :
                     oneLoss \in { OneLosses(px, perOrientationPixelsOffsets[orientation + 1][i],
                                             base, table, modifiers) } } : TRUE] @@ << >> } } : TRUE

\* The first table whose loss no other undercuts, with its indexes.
encodeHalfBlock(px, orientation, base, modifiers) ==
  CHOOSE r \in
    { CHOOSE q \in
        { [table |-> t] @@ res[t] :
            t \in { CHOOSE t \in 0..7 :
                      \A u \in 0..7 :
                        (res[t].loss < res[u].loss)
                        \/ ((res[t].loss = res[u].loss) /\ (t <= u)) } } : TRUE :
        res \in { [u \in 0..7 |-> encodeHalfBlock1(px, orientation, base, u, modifiers)]
                  @@ << >> } } : TRUE

\* The 8-bit base colours of a candidate: its 5-bit or 4-bit fields expanded.
CandidateBases(plain) ==
  IF plain.mode = "differential"
  THEN << [c \in 1..3 |-> Expand5(Bits64(plain.code, 67 - (8 * c), 5))] @@ << >>,
          [c \in 1..3 |-> Expand5(plain.base1[c])] @@ << >> >>
  ELSE << [c \in 1..3 |-> Expand4(Bits64(plain.code, 68 - (8 * c), 4))] @@ << >>,
          [c \in 1..3 |-> Expand4(plain.base1[c])] @@ << >> >>

\* reduceQuantize's choices for the 5-bit and the 4-bit colours of the halves.
SansCorners(reduce, avgs) ==
  IF reduce = "reduceAverage" THEN <<0, 0, 0, 0>>
  ELSE << QuantizeChoice(avgs[1], TRUE), QuantizeChoice(avgs[2], TRUE),
          QuantizeChoice(avgs[1], FALSE), QuantizeChoice(avgs[2], FALSE) >>

\* The loss and the codeword of one flipBit once the bases are reduced.
SansAlphaPacked(px, reduce, formatIsETC1S, flipBit, modifiers, avgs, corners, bases) ==
  CHOOSE r \in
    { [loss |-> h0.loss + h1.loss, flipBit |-> flipBit,
       code |-> SansAlphaCandidate(reduce, formatIsETC1S, flipBit, avgs[1], avgs[2], corners,
                                   h0.table, h1.table, h0.hi + h1.hi, h0.lo + h1.lo).code] :
        h0 \in { encodeHalfBlock(px, 2 * flipBit, bases[1], modifiers) },
        h1 \in { encodeHalfBlock(px, (2 * flipBit) + 1, bases[2], modifiers) } } : TRUE

\* One iteration of the loop over flipBit: the loss and the codeword.
SansAlphaFlip(px, reduce, formatIsETC1S, flipBit, modifiers) ==
  CHOOSE r \in
    { CHOOSE q \in
        { CHOOSE p \in
            { SansAlphaPacked(px, reduce, formatIsETC1S, flipBit, modifiers, avgs, corners,
                              bases) :
                bases \in { CandidateBases(
                              SansAlphaCandidate(reduce, formatIsETC1S, flipBit, avgs[1],
                                                 avgs[2], corners, 0, 0, 0, 0)) } } : TRUE :
            corners \in { SansCorners(reduce, avgs) } } : TRUE :
        avgs \in { << calculateRGBAverages(px, 2 * flipBit),
                      calculateRGBAverages(px, (2 * flipBit) + 1) >> } } : TRUE

\* A variant of the comparison of the two orientations that prefers the
\* flipped one on a tie.
FlipIsBetter_OrEqual(bestLoss, loss) == bestLoss >= loss

\* if bestLoss > loss
FlipIsBetter(bestLoss, loss) == bestLoss > loss

\* encodeRGBSansAlpha: the candidates tried and the one returned.
encodeRGBSansAlpha(px, reduce, formatIsETC1S, modifiers) ==
  CHOOSE r \in
    { IF formatIsETC1S
      THEN [code |-> norm.code, tried |-> <<norm>>]
      ELSE CHOOSE q \in
             { [code |-> IF FlipIsBetter(norm.loss, flip.loss) THEN flip.code ELSE norm.code,
                tried |-> <<norm, flip>>] :
                 flip \in { SansAlphaFlip(px, reduce, formatIsETC1S, 1, modifiers) } } : TRUE :
        norm \in { SansAlphaFlip(px, reduce, formatIsETC1S, 0, modifiers) } } : TRUE



(***************************************************************************)
(* The specification of encodeRGBSansAlpha on whole blocks.                *)
(***************************************************************************)
\* Opaque blocks of two colours, split by columns or by rows, and a block
\* whose left columns are flat and whose right columns alternate between
\* black and white.
SansBlocks ==
  { [k \in 0..63 |->
       LET v == IF (IF o = 0 THEN (k \div 4) % 4 ELSE k \div 16) < 2 THEN c ELSE d
       IN  IF k % 4 = 3 THEN 255
           ELSE IF k % 4 = 0 THEN v
           ELSE IF k % 4 = 1 THEN 255 - v
           ELSE v \div 2] :
      o \in {0, 1}, c \in {0, 100, 200}, d \in {90, 100, 110, 133, 255} }
  \cup
  { [k \in 0..63 |->
       IF k % 4 = 3 THEN 255
       ELSE IF (k \div 4) % 4 < 2 THEN 100
       ELSE IF (k \div 16) % 2 = 0 THEN 0 ELSE 255] }

InitSans ==
  /\ call \in { [api |-> "encodeRGBSansAlphaBlock", pixels |-> b, reduce |-> rd[1],
                 formatIsETC1S |-> rd[2], modifiers |-> m] :
                  b \in SansBlocks,
                  rd \in { <<"reduceAverage", FALSE>>, <<"reduceQuantize", FALSE>>,
                           <<"reduceAverage", TRUE>> },
                  m \in ModifierTables }
  /\ pc = call.api
  /\ blockX = 0
  /\ blockY = 0
  /\ dec = <<>>
  /\ Idle

EncodeRGBSansAlphaBlockCall ==
  /\ pc = "encodeRGBSansAlphaBlock"
  /\ dec' = << encodeRGBSansAlpha(call.pixels, call.reduce, call.formatIsETC1S,
                                  call.modifiers) >>
  /\ pc' = "done"
  /\ UNCHANGED <<call, f, blockX, blockY, bufJ, buf, pixels, writes, nBlocks, ret, hdr>>

NextSans == EncodeRGBSansAlphaBlockCall

SpecSans == InitSans /\ [][NextSans]_vars

SansDone == (pc = "done") /\ (call.api = "encodeRGBSansAlphaBlock")

\* The 5-bit (TRUE) or 4-bit (FALSE) base colours of the halves of one
\* orientation, from the pixels of the call.
SansBasesOf(flipBit, produce5BitColor) ==
  LET avgs == << calculateRGBAverages(call.pixels, 2 * flipBit),
                 calculateRGBAverages(call.pixels, (2 * flipBit) + 1) >>
      corners == SansCorners(call.reduce, avgs)
      k == IF produce5BitColor THEN 0 ELSE 2
      w == IF produce5BitColor THEN 8 ELSE 16
  IN  IF call.formatIsETC1S
      THEN [h \in 1..2 |->
              [c \in 1..3 |-> reduceETC1SProduce5BitColor(avgs[1][c], avgs[2][c]) \div w]]
      ELSE [h \in 1..2 |->
              [c \in 1..3 |-> Reduce(call.reduce, avgs[h], produce5BitColor,
                                     corners[k + h])[c] \div w]]

\* C21: for each orientation tried, the candidate is Differential (bit 33
\* set, the 5-bit base of half 0 and the 3-bit two's-complement delta of
\* half 1) exactly when the 5-bit bases of the halves differ by -4..+3 on
\* each of R, G and B, and is otherwise Individual (bit 33 clear) with the
\* 4-bit re-reductions of both halves; bit 32 of a candidate is its
\* orientation, and the codeword returned is that of flip 1 only when its
\* loss is strictly smaller than that of flip 0.
C21_LayoutAndFlip ==
  SansDone =>
    /\ \A n \in 1..Len(dec[1].tried) :
         LET t == dec[1].tried[n]
             b5 == SansBasesOf(t.flipBit, TRUE)
             b4 == SansBasesOf(t.flipBit, FALSE)
             fits == \A c \in 1..3 : (b5[2][c] - b5[1][c]) \in -4..3
         IN  /\ t.flipBit = n - 1
             /\ Bits64(t.code, 32, 1) = t.flipBit
             /\ (Bits64(t.code, 33, 1) = 1) <=> fits
             /\ fits => \A c \in 1..3 :
                  /\ Bits64(t.code, 67 - (8 * c), 5) = b5[1][c]
                  /\ Bits64(t.code, 64 - (8 * c), 3) = (b5[2][c] - b5[1][c] + 8) % 8
             /\ ~fits => \A c \in 1..3 :
                  /\ Bits64(t.code, 68 - (8 * c), 4) = b4[1][c]
                  /\ Bits64(t.code, 64 - (8 * c), 4) = b4[2][c]
    /\ Len(dec[1].tried) = IF call.formatIsETC1S THEN 1 ELSE 2
    /\ dec[1].code = IF (Len(dec[1].tried) = 2)
                        /\ (dec[1].tried[2].loss < dec[1].tried[1].loss)
                     THEN dec[1].tried[2].code
                     ELSE dec[1].tried[1].code

\* A block whose orientations differ in layout and whose flipped
\* orientation wins.
C21_Witness ==
  /\ SansDone
  /\ Len(dec[1].tried) = 2
  /\ Bits64(dec[1].tried[1].code, 33, 1) = 1
  /\ Bits64(dec[1].tried[2].code, 33, 1) = 0
  /\ Bits64(dec[1].code, 32, 1) = 1

\* A block whose orientations tie with a loss above zero, so that flip 0 is
\* returned.
C21_WitnessTie ==
  /\ SansDone
  /\ Len(dec[1].tried) = 2
  /\ dec[1].tried[1].loss = dec[1].tried[2].loss
  /\ dec[1].tried[1].loss > 0
  /\ Bits64(dec[1].code, 32, 1) = 0

\* C22: every ETC1S codeword has bit 33 set, the three 3-bit deltas zero,
\* the flip bit clear and the two table selectors (bits 39..37 and 36..34)
\* equal.
C22_ETC1SSharesBaseAndTable ==
  (SansDone /\ call.formatIsETC1S) =>
    /\ Bits64(dec[1].code, 33, 1) = 1
    /\ \A c \in 1..3 : Bits64(dec[1].code, 64 - (8 * c), 3) = 0
    /\ Bits64(dec[1].code, 32, 1) = 0
    /\ Bits64(dec[1].code, 37, 3) = Bits64(dec[1].code, 34, 3)

\* The part of C22 about the base and the flip bit alone.
ETC1SSharesBase ==
  (SansDone /\ call.formatIsETC1S) =>
    /\ Bits64(dec[1].code, 33, 1) = 1
    /\ \A c \in 1..3 : Bits64(dec[1].code, 64 - (8 * c), 3) = 0
    /\ Bits64(dec[1].code, 32, 1) = 0



(***************************************************************************)
(* The specification of encodeColor with the codewords of                  *)
(* encodeRGBSansAlpha computed in full: the order of the attempts and the  *)
(* codewords of ETC1 and ETC1S.                                            *)
(***************************************************************************)
\* The blocks of ColorBlocks and a block of two distant colours.
DriverBlocks ==
  ColorBlocks
  \cup
  { [k \in 0..63 |-> IF k % 4 = 3 THEN 255
                     ELSE IF (k \div 4) % 4 < 2 THEN 200 - (40 * (k % 4))
                     ELSE 90 + (8 * (k % 4))] }

\* The results at the call sites: those of encodeRGBSansAlpha are computed,
\* the others stand for their site and decoded level.
DriverSubResults(fmt, px, modifiers) ==
  { [site \in SitesOf(fmt) |->
       [code |-> IF site = "A" THEN codeA
                 ELSE IF site = "Q" THEN codeQ
                 ELSE <<lvl[site], SiteNumber(site), 0, 0>>,
        work |-> [k \in 0..63 |-> lvl[site]]]] :
      codeA \in { encodeRGBSansAlpha(px, "reduceAverage", fmt = FormatETC1S, modifiers).code },
      codeQ \in { IF "Q" \in SitesOf(fmt)
                  THEN encodeRGBSansAlpha(px, "reduceQuantize", FALSE, modifiers).code
                  ELSE Zero64 },
      lvl \in [SitesOf(fmt) -> DecodedLevels] }

InitDriver ==
  /\ call \in UNION { { [api |-> "encodeColor", f |-> x[1], pixels |-> x[2],
                         modifiers |-> x[3], sub |-> s] :
                          s \in DriverSubResults(x[1], x[2], x[3]) } :
                        x \in ColorFormats \X DriverBlocks \X ModifierTables }
  /\ pc = "encodeColor"
  /\ blockX = 0
  /\ blockY = 0
  /\ dec = <<>>
  /\ Idle

NextDriver == EncodeColorCall

SpecDriver == InitDriver /\ [][NextDriver]_vars

DriverDone == (pc = "done") /\ (call.api = "encodeColor")

\* The least recomputed loss of a non-empty set of sites.
LeastLoss(sites) ==
  CHOOSE l \in { RecomputedLoss(s) : s \in sites } :
    \A s \in sites : l <= RecomputedLoss(s)

\* The sites tried after those of pre have been: Planar, T and H, and then
\* the harder T only if T improved on the best and H did not, the harder H
\* only if H improved on the best.
ETC2Attempts(pre) ==
  LET sites == { pre[i] : i \in 1..Len(pre) }
      improvedT == RecomputedLoss("T") < LeastLoss(sites \cup {"P"})
      improvedH == RecomputedLoss("H") < LeastLoss(sites \cup {"P", "T"})
  IN  pre \o <<"P", "T", "H">>
          \o (IF improvedH THEN <<"I">> ELSE IF improvedT THEN <<"U">> ELSE <<>>)

\* The codeword is one an ETC1 decoder reads as Individual or Differential.
ETC1Decodable(code) ==
  \/ Bits64(code, 33, 1) = 0
  \/ \A c \in 1..3 : DiffSum(code, 64 - (8 * c)) \in 0..31

\* The part of C23 about ETC1 and ETC1S.
ETC1Attempts ==
  /\ (call.f = FormatETC1S) => (dec[1].tried = <<"A">>)
  /\ (call.f = FormatETC1) => (dec[1].tried = <<"A", "Q">>)
  /\ (call.f \in {FormatETC1S, FormatETC1}) => ETC1Decodable(dec[1].code)

\* C23 as stated: ETC1 tries Average and Quantize and ETC1S Average only,
\* their codewords have bit 33 clear or no overflow of base plus delta on
\* any channel, and every ETC2 colour format tries Average, Quantize,
\* Planar, T, H and then at most one harder re-run, of T or of H.
C23_OrderOfAttempts ==
  DriverDone =>
    /\ ETC1Attempts
    /\ (call.f \in {FormatETC2RGB, FormatETC2RGBA1, FormatETC2RGBA8})
         => /\ Len(dec[1].tried) >= 5
            /\ SubSeq(dec[1].tried, 1, 5) = <<"A", "Q", "P", "T", "H">>
            /\ dec[1].tried = ETC2Attempts(<<"A", "Q">>)

\* C23 amended: as stated for ETC1, ETC1S, ETC2-RGB and ETC2-RGBA8; for
\* ETC2-RGBA1 the attempts are encodeRGBWithAlpha(true), T and H with
\* isTransparent, and, for a block without a pixel below the alpha
\* threshold only, encodeRGBWithAlpha(false), Planar, T, H and the harder
\* re-run.
C23_OrderOfAttemptsPerFormat ==
  DriverDone =>
    /\ ETC1Attempts
    /\ (call.f \in {FormatETC2RGB, FormatETC2RGBA8})
         => (dec[1].tried = ETC2Attempts(<<"A", "Q">>))
    /\ (call.f = FormatETC2RGBA1)
         => (dec[1].tried =
               IF hasTransparentPixelsWhenUsingOneBitAlpha(call.pixels)
               THEN <<"A1", "T1", "H1">>
               ELSE ETC2Attempts(<<"A1", "T1", "H1", "B1">>))

\* An ETC1 block whose Quantize candidate, a Differential codeword, is the
\* one returned.
C23_Witness ==
  /\ DriverDone
  /\ call.f = FormatETC1
  /\ dec[1].site = "Q"
  /\ Bits64(dec[1].code, 33, 1) = 1

\* An ETC2-RGB block whose T candidate improved on the best, whose H
\* candidate did not, and whose harder T was tried.
C23_WitnessHarder ==
  /\ DriverDone
  /\ call.f = FormatETC2RGB
  /\ dec[1].tried = <<"A", "Q", "P", "T", "H", "U">>
  /\ dec[1].site = "T"



(***************************************************************************)
(* lib/etc2: calculateError59T and calculateError58H, the searches of      *)
(* encodeT and encodeH for the distance index and the pixel indexes, given *)
(* the two 4-bit colours the clustering settled on.  The table thModifiers *)
(* is a parameter.                                                         *)
(***************************************************************************)
wholeBlockShifts == <<0, 4, 8, 12, 1, 5, 9, 13, 2, 6, 10, 14, 3, 7, 11, 15>>

\* rgb444[k][c] * 0x11
Base8(rgb) == [c \in 1..3 |-> rgb[c] * 17] @@ << >>

\* clamp[(uint32(base[c]) + delta) & 1023] on the three channels
Shifted(base, delta) == [c \in 1..3 |-> clamp((base[c] + delta) % 1024)] @@ << >>

\* oneLoss of the pixel i against each of the four colours.
OneLossesTH(px, i, colors) ==
  [j \in 0..3 |->
     (weightValuesI32[1] * (px[4 * i] - colors[j][1]) * (px[4 * i] - colors[j][1]))
     + (weightValuesI32[2] * (px[(4 * i) + 1] - colors[j][2]) * (px[(4 * i) + 1] - colors[j][2]))
     + (weightValuesI32[3] * (px[(4 * i) + 2] - colors[j][3]) * (px[(4 * i) + 2] - colors[j][3]))]
  @@ << >>

\* if bestOneLoss > oneLoss: the first j of js that no other undercuts.
FirstLeast(oneLoss, js) ==
  CHOOSE j \in js :
    \A k \in js : (oneLoss[j] < oneLoss[k]) \/ ((oneLoss[j] = oneLoss[k]) /\ (j <= k))

\* bestJ and bestOneLoss of a pixel in calculateError59T.
PixelT(px, i, colors, formatIsOneBitAlpha) ==
  IF formatIsOneBitAlpha /\ (AlphaAt(px, i) < 128)
  THEN [j |-> 2, loss |-> 0]
  ELSE CHOOSE r \in
         { CHOOSE q \in { [j |-> j, loss |-> oneLoss[j]] :
                            j \in { FirstLeast(oneLoss, IF formatIsOneBitAlpha
                                                        THEN {0, 1, 3} ELSE 0..3) } } : TRUE :
             oneLoss \in { OneLossesTH(px, i, colors) } } : TRUE

\* A variant of the test of calculateError58H that gives the index of
\* alphaIndex to the pixels below the alpha threshold.
OneLossH_BelowThreshold(raw, j, alpha, formatIsOneBitAlpha, alphaIndex) ==
  IF ~formatIsOneBitAlpha THEN raw
  ELSE IF (j = alphaIndex) /\ (alpha < 128) THEN 0
  ELSE IF (j = alphaIndex) \/ (alpha < 128) THEN maxInt32
  ELSE raw

\* oneLoss at haveOneLoss in calculateError58H; raw is the weighted sum of
\* squares.
OneLossH(raw, j, alpha, formatIsOneBitAlpha, alphaIndex) ==
  IF ~formatIsOneBitAlpha THEN raw
  ELSE IF (j = alphaIndex) /\ (alpha >= 128) THEN 0
  ELSE IF (j = alphaIndex) \/ (alpha >= 128) THEN maxInt32
  ELSE raw

\* bestJ and bestOneLoss of a pixel in calculateError58H.
PixelH(px, i, colors, formatIsOneBitAlpha, alphaIndex) ==
  CHOOSE r \in
    { CHOOSE q \in { [j |-> j, loss |-> oneLoss[j]] :
                       j \in { FirstLeast(oneLoss, 0..3) } } : TRUE :
        oneLoss \in
          { [j \in 0..3 |-> OneLossH(raw[j], j, AlphaAt(px, i), formatIsOneBitAlpha,
                                     alphaIndex)] @@ << >> :
              raw \in { OneLossesTH(px, i, colors) } } } : TRUE

\* blockLoss += bestOneLoss over the pixels from i on.
RECURSIVE BlockLossTH(_, _)
BlockLossTH(best, i) == IF i = 16 THEN 0 ELSE best[i].loss + BlockLossTH(best, i + 1)

\* pixelIndexes, as its two 16-bit halves, and blockLoss from the sixteen
\* choices; pixel i is at the position wholeBlockShifts[i].
BlockResultTH(best) ==
  CHOOSE r \in
    { [idxHi |-> IndexBits(index, 1, 0), idxLo |-> IndexBits(index, 0, 0),
       loss |-> BlockLossTH(best, 0)] :
        index \in { [p \in 0..15 |->
                     best[CHOOSE i \in 0..15 : wholeBlockShifts[i + 1] = p].j] @@ << >> } } : TRUE

\* One pass of calculateError59T: the colours rgb444 after the swap, one
\* distance index.
TryT(px, rgb444, which, formatIsOneBitAlpha, thModifiers) ==
  CHOOSE r \in
    { BlockResultTH([i \in 0..15 |-> PixelT(px, i, colors, formatIsOneBitAlpha)] @@ << >>) :
        colors \in { [j \in 0..3 |->
                        IF j = 0 THEN Base8(rgb444[1])
                        ELSE IF j = 1 THEN Shifted(Base8(rgb444[2]), thModifiers[which])
                        ELSE IF j = 2 THEN Base8(rgb444[2])
                        ELSE Shifted(Base8(rgb444[2]), -thModifiers[which])] @@ << >> } } : TRUE

\* calculateError59T: the first pass, in the order of swap and then which,
\* whose blockLoss no other undercuts.
calculateError59T(px, rgb444, formatIsOneBitAlpha, thModifiers) ==
  CHOOSE r \in
    { CHOOSE q \in
        { [swap |-> k \div 8, which |-> k % 8] @@ res[k] :
            k \in { CHOOSE k \in 0..15 :
                      \A m \in 0..15 :
                        (res[k].loss < res[m].loss)
                        \/ ((res[k].loss = res[m].loss) /\ (k <= m)) } } : TRUE :
        res \in { [k \in 0..15 |->
                     TryT(px, SwapIf(k \div 8, rgb444), k % 8, formatIsOneBitAlpha,
                          thModifiers)] @@ << >> } } : TRUE

\* alphaIndex of calculateError58H, -1 when there is none.
AlphaIndexH(rgb444, which, formatIsOneBitAlpha) ==
  IF ~formatIsOneBitAlpha THEN -1
  ELSE IF (Packed444(rgb444[1]) >= Packed444(rgb444[2])) # (which % 2 = 1) THEN 0
  ELSE 2

\* One pass of calculateError58H: one distance index.
TryH(px, rgb444, which, formatIsOneBitAlpha, thModifiers) ==
  CHOOSE r \in
    { BlockResultTH([i \in 0..15 |->
                       PixelH(px, i, colors, formatIsOneBitAlpha,
                              AlphaIndexH(rgb444, which, formatIsOneBitAlpha))] @@ << >>) :
        colors \in { [j \in 0..3 |->
                        IF j = 0 THEN Shifted(Base8(rgb444[1]), thModifiers[which])
                        ELSE IF j = 1 THEN Shifted(Base8(rgb444[1]), -thModifiers[which])
                        ELSE IF j = 2 THEN Shifted(Base8(rgb444[2]), thModifiers[which])
                        ELSE Shifted(Base8(rgb444[2]), -thModifiers[which])] @@ << >> } } : TRUE

\* calculateError58H: the first distance index whose blockLoss no other
\* undercuts; bestSwap stays 0.
calculateError58H(px, rgb444, formatIsOneBitAlpha, thModifiers) ==
  CHOOSE r \in
    { CHOOSE q \in
        { [swap |-> 0, which |-> k] @@ res[k] :
            k \in { CHOOSE k \in 0..7 :
                      \A m \in 0..7 :
                        (res[k].loss < res[m].loss)
                        \/ ((res[k].loss = res[m].loss) /\ (k <= m)) } } : TRUE :
        res \in { [k \in 0..7 |->
                     TryH(px, rgb444, k, formatIsOneBitAlpha, thModifiers)] @@ << >> } } : TRUE

\* encodeT without goHarder, from the cluster that clusterfy returns.
encodeT(px, cluster, formatIsOneBitAlpha, thModifiers) ==
  CHOOSE r \in
    { [code |-> PackT(Cluster4(cluster), s.swap, s.which, s.idxHi, s.idxLo,
                      formatIsOneBitAlpha),
       search |-> s] :
        s \in { calculateError59T(px, Cluster4(cluster), formatIsOneBitAlpha,
                                  thModifiers) } } : TRUE

\* encodeH without goHarder, from the cluster that clusterfy returns.
encodeH(px, cluster, formatIsOneBitAlpha, thModifiers) ==
  CHOOSE r \in
    { [code |-> PackH(sort4BitColors(Cluster4(cluster)), s.swap, s.which, s.idxHi,
                      s.idxLo, formatIsOneBitAlpha),
       search |-> s] :
        s \in { calculateError58H(px, sort4BitColors(Cluster4(cluster)),
                                  formatIsOneBitAlpha, thModifiers) } } : TRUE



(***************************************************************************)
(* The specification of the three sub-encoders of ETC2-RGBA1 and of the    *)
(* searches of encodeT and encodeH on whole blocks.                        *)
(***************************************************************************)
\* The colour of level v: its three channels differ.
ColourOf(v) == << v, (v + 40) % 256, v \div 2 >>

\* Which pixels are below the alpha threshold: none, one, the left
\* columns, or every other one.
BelowThreshold(pattern, i) ==
  CASE pattern = "none" -> FALSE
    [] pattern = "one" -> i = 6
    [] pattern = "left" -> i % 4 < 2
    [] pattern = "checker" -> ((i % 4) + (i \div 4)) % 2 = 0

\* Blocks whose upper rows are of level c and lower rows of level d, with
\* alpha 127 or 128 on either side of the threshold.
PunchBlock(c, d, pattern) ==
  [k \in 0..63 |->
     IF k % 4 = 3 THEN (IF BelowThreshold(pattern, k \div 4) THEN 127 ELSE 128)
     ELSE ColourOf(IF k \div 32 = 0 THEN c ELSE d)[(k % 4) + 1]]

PunchLevels == {0, 100, 200}

PunchPatterns == {"none", "one", "left", "checker"}

\* Candidate values of thModifiers, eight distances.
ThModifierTables ==
  { [w \in 0..7 |-> <<3, 6, 11, 16, 23, 32, 41, 64>>[w + 1]],
    [w \in 0..7 |-> 2 * (w + 1)] }

\* encodeRGBWithAlpha on blocks of one colour, whose weighted averages are
\* that colour; encodeT and encodeH on blocks of one or two colours, with
\* the cluster made of the block's colours in either order.
PunchInputs ==
  { [api |-> "encodeRGBWithAlphaBlock", pixels |-> PunchBlock(c, c, pt),
     formatIsOneBitAlpha |-> TRUE, modifiers |-> m] :
      c \in PunchLevels, pt \in PunchPatterns, m \in ModifierTables }
  \cup
  { [api |-> a, pixels |-> PunchBlock(c, d, pt),
     cluster |-> << ColourOf(c), ColourOf(d) >>,
     formatIsOneBitAlpha |-> ob, thModifiers |-> th] :
      a \in {"encodeTBlock", "encodeHBlock"}, c \in PunchLevels, d \in PunchLevels,
      pt \in PunchPatterns, ob \in BOOLEAN, th \in ThModifierTables }

InitPunch ==
  /\ call \in PunchInputs
  /\ pc = call.api
  /\ blockX = 0
  /\ blockY = 0
  /\ dec = <<>>
  /\ Idle

EncodeRGBWithAlphaBlockCall ==
  /\ pc = "encodeRGBWithAlphaBlock"
  /\ dec' = << [code |-> encodeRGBWithAlpha(call.pixels, TRUE, call.modifiers)] >>
  /\ pc' = "done"
  /\ UNCHANGED <<call, f, blockX, blockY, bufJ, buf, pixels, writes, nBlocks, ret, hdr>>

EncodeTBlockCall ==
  /\ pc = "encodeTBlock"
  /\ dec' = << encodeT(call.pixels, call.cluster, call.formatIsOneBitAlpha,
                       call.thModifiers) >>
  /\ pc' = "done"
  /\ UNCHANGED <<call, f, blockX, blockY, bufJ, buf, pixels, writes, nBlocks, ret, hdr>>

EncodeHBlockCall ==
  /\ pc = "encodeHBlock"
  /\ dec' = << encodeH(call.pixels, call.cluster, call.formatIsOneBitAlpha,
                       call.thModifiers) >>
  /\ pc' = "done"
  /\ UNCHANGED <<call, f, blockX, blockY, bufJ, buf, pixels, writes, nBlocks, ret, hdr>>

NextPunch == EncodeRGBWithAlphaBlockCall \/ EncodeTBlockCall \/ EncodeHBlockCall

SpecPunch == InitPunch /\ [][NextPunch]_vars

\* A sub-encoder of ETC2-RGBA1 has returned the codeword of a block with a
\* pixel below the alpha threshold.
PunchDone(apis) ==
  /\ pc = "done"
  /\ call.api \in apis
  /\ call.formatIsOneBitAlpha
  /\ hasTransparentPixelsWhenUsingOneBitAlpha(call.pixels)

\* The pixels to which the codeword gives the reserved index 2.
ReservedPixels(code) ==
  { i \in 0..15 : PixelIndexOf(code, wholeBlockShifts[i + 1]) = 2 }

BelowThresholdPixels == { i \in 0..15 : AlphaAt(call.pixels, i) < 128 }

\* C24: for a block with a pixel of alpha below 0x80, the codeword of each
\* of encodeRGBWithAlpha(true), encodeT(true, ...) and encodeH(true, ...)
\* has bit 33 clear and gives the reserved index 2 to exactly the pixels of
\* alpha below 0x80.
C24_ReservedIndexForTransparent ==
  PunchDone({"encodeRGBWithAlphaBlock", "encodeTBlock", "encodeHBlock"})
    => /\ Bits64(dec[1].code, 33, 1) = 0
       /\ ReservedPixels(dec[1].code) = BelowThresholdPixels

\* What holds of C24: the codewords of encodeRGBWithAlpha(true) and of
\* encodeT(true, ...).
ReservedIndexIDAndT ==
  PunchDone({"encodeRGBWithAlphaBlock", "encodeTBlock"})
    => /\ Bits64(dec[1].code, 33, 1) = 0
       /\ ReservedPixels(dec[1].code) = BelowThresholdPixels

\* What encodeH(true, ...) does: bit 33 is clear, and the reserved index
\* goes to exactly the pixels of alpha 0x80 or above.
ReservedIndexHInverted ==
  PunchDone({"encodeHBlock"})
    => /\ Bits64(dec[1].code, 33, 1) = 0
       /\ ReservedPixels(dec[1].code) = (0..15) \ BelowThresholdPixels


HDone == (pc = "done") /\ (call.api = "encodeHBlock")

\* The two RGB444 base colours as an H codeword stores them.
StoredH(code) ==
  << << Bits64(code, 59, 4),
        (2 * Bits64(code, 56, 3)) + Bits64(code, 52, 1),
        (8 * Bits64(code, 51, 1)) + Bits64(code, 47, 3) >>,
     << Bits64(code, 43, 4), Bits64(code, 39, 4), Bits64(code, 35, 4) >> >>

\* The colour an index selects: one of the two bases, and the distance
\* added (0) or subtracted (1).
SelectedH(bases, index) == << bases[(index \div 2) + 1], index % 2 >>

\* The index of the search for the pixel at position p.
SearchIndexOf(search, p) ==
  (2 * ((search.idxHi \div Pow2(p)) % 2)) + ((search.idxLo \div Pow2(p)) % 2)

\* C25: in every H codeword the two stored RGB444 bases differ, the low
\* bit of the distance index chosen is 1 exactly when the first stored
\* base is greater than or equal to the second, and each pixel's stored
\* index selects, from the stored bases, the colour its index in the
\* search selected from the sorted bases; when the bases were exchanged the
\* high bit of every pixel index is the inverse of that of the search.
C25_HBasesOrdered ==
  HDone =>
    LET stored == StoredH(dec[1].code)
        sorted == sort4BitColors(Cluster4(call.cluster))
        exchanged == stored # sorted
    IN  /\ Packed444(stored[1]) # Packed444(stored[2])
        /\ (dec[1].search.which % 2 = 1)
             <=> (Packed444(stored[1]) >= Packed444(stored[2]))
        /\ Packed444(sorted[1]) < Packed444(sorted[2])
        /\ exchanged => (stored = << sorted[2], sorted[1] >>)
        /\ \A p \in 0..15 :
             /\ SelectedH(stored, PixelIndexOf(dec[1].code, p))
                  = SelectedH(sorted, SearchIndexOf(dec[1].search, p))
             /\ exchanged => (PixelIndexOf(dec[1].code, p) \div 2)
                               = 1 - (SearchIndexOf(dec[1].search, p) \div 2)

\* An H codeword of a block of one colour, whose equal clusters were made
\* to differ, with an odd distance index, for which the bases were
\* exchanged.
C25_Witness ==
  /\ HDone
  /\ Cluster4(call.cluster)[1] = Cluster4(call.cluster)[2]
  /\ dec[1].search.which % 2 = 1
  /\ Packed444(StoredH(dec[1].code)[1]) = Packed444(StoredH(dec[1].code)[2]) + 1



(***************************************************************************)
(* lib/etc2: encode11, the codeword of an 11-bit channel.  The search runs *)
(* over the bases 0..MaxBase11, the multipliers 0..MaxMult11 and the       *)
(* tables 0..MaxTable11, in the order of the three loops; the table        *)
(* alphaModifiers is a parameter.                                          *)
(***************************************************************************)
MaxBase11 == 3

MaxMult11 == 1

MaxTable11 == 3

\* maxUint64 is above every loss; the losses of the blocks below stay
\* under maxInt32, which stands for it.
maxUint64 == maxInt32

\* int32(int8(rawBase))
Int8(b) == IF b >= 128 THEN b - 256 ELSE b

\* encode11Helper.fill: the eight 16-bit reconstruction values.
fill(rawBase, rawMultiplier, table, signed, alphaModifiers) ==
  [i \in 0..7 |->
     LET multiplier == max(1, 8 * rawMultiplier)
         delta == multiplier * alphaModifiers[table][i]
     IN  IF signed
         THEN LET base == 8 * max(Int8(rawBase), -127)
                  value11 == max(-1023, min(1023, base + delta))
              IN  IF value11 >= 0
                  THEN (BitOr(value11 * 32, value11 \div 32) + 32768) % 65536
                  ELSE ((-BitOr((-value11) * 32, (-value11) \div 32)) + 32768) % 65536
         ELSE LET base == (8 * rawBase) + 4
                  value11 == max(0, min(2047, base + delta))
              IN  BitOr((value11 * 32) % 65536, value11 \div 64)] @@ << >>

\* value: the 16-bit big-endian pixel i of the channel at pixOffset
Value16(px, pixOffset, i) ==
  (256 * px[pixOffset + (2 * i)]) + px[pixOffset + (2 * i) + 1]

\* delta2 of the pixel against each of the eight values of the helper.
Delta2s(px, pixOffset, i, h) ==
  [j \in 0..7 |-> (Value16(px, pixOffset, i) - h[j]) * (Value16(px, pixOffset, i) - h[j])]
  @@ << >>

\* if bestDelta2 > delta2: the first j that no other undercuts.
Nearest11(px, pixOffset, i, h) ==
  CHOOSE r \in
    { CHOOSE q \in
        { [j |-> j, delta2 |-> d2[j]] :
            j \in { CHOOSE j \in 0..7 :
                      \A k \in 0..7 : (d2[j] < d2[k]) \/ ((d2[j] = d2[k]) /\ (j <= k)) } } : TRUE :
        d2 \in { Delta2s(px, pixOffset, i, h) } } : TRUE

\* The loop of calculate11BlockLoss from pixel i on: it returns as soon as
\* the loss reaches bestLossSoFar.
RECURSIVE Loss11From(_, _, _, _)
Loss11From(near, bestLossSoFar, i, loss) ==
  IF i = 16 THEN loss
  ELSE CHOOSE r \in
         { IF l >= bestLossSoFar THEN l ELSE Loss11From(near, bestLossSoFar, i + 1, l) :
             l \in { loss + near[i].delta2 } } : TRUE

\* A variant without the early return.
calculate11BlockLoss_Full(h, px, pixOffset, bestLossSoFar) ==
  Loss11From([i \in 0..15 |-> Nearest11(px, pixOffset, i, h)] @@ << >>, maxUint64, 0, 0)

calculate11BlockLoss(h, px, pixOffset, bestLossSoFar) ==
  Loss11From([i \in 0..15 |-> Nearest11(px, pixOffset, i, h)] @@ << >>, bestLossSoFar, 0, 0)

\* The base, the multiplier and the table of the k-th pass of the loops.
Triple11(k) ==
  [base |-> k \div ((MaxMult11 + 1) * (MaxTable11 + 1)),
   mult |-> (k \div (MaxTable11 + 1)) % (MaxMult11 + 1),
   table |-> k % (MaxTable11 + 1)]

Triples11 == (MaxBase11 + 1) * (MaxMult11 + 1) * (MaxTable11 + 1)

\* A variant of the comparison that lets a later triple win a tie.
Better11_OrEqual(bestLoss, loss) == bestLoss >= loss

\* if bestLoss > loss
Better11(bestLoss, loss) == bestLoss > loss

\* The three loops of encode11 from the k-th pass on.
RECURSIVE Search11(_, _, _, _, _, _)
Search11(px, pixOffset, signed, alphaModifiers, k, best) ==
  IF k = Triples11 THEN best
  ELSE CHOOSE r \in
         { Search11(px, pixOffset, signed, alphaModifiers, k + 1,
                    IF Better11(best.loss, loss) THEN [loss |-> loss] @@ Triple11(k)
                    ELSE best) :
             loss \in { calculate11BlockLoss(
                          fill(Triple11(k).base, Triple11(k).mult, Triple11(k).table,
                               signed, alphaModifiers),
                          px, pixOffset, best.loss) } } : TRUE

\* The codeword from the best triple and the sixteen indexes.
Pack11(bestBase, bestMult, bestTable, bestJ) ==
  OrIndexes(bestJ, 0, Or64(Shl64(bestBase, 64 - 8),
                      Or64(Shl64(bestMult, 56 - 4), Shl64(bestTable, 52 - 4))))

\* encode11's return value, with the best triple.
encode11Bits(px, pixOffset, signed, alphaModifiers) ==
  CHOOSE r \in
    { [code |-> Pack11(best.base, best.mult, best.table,
                       [i \in 0..15 |->
                          Nearest11(px, pixOffset, i,
                                    fill(best.base, best.mult, best.table, signed,
                                         alphaModifiers)).j] @@ << >>)] @@ best :
        best \in { Search11(px, pixOffset, signed, alphaModifiers, 0,
                            [loss |-> maxUint64, base |-> 0, mult |-> 0, table |-> 0]) } } : TRUE


(***************************************************************************)
(* The specification of the EAC codewords: encodeAlpha and encode11.       *)
(***************************************************************************)
\* The 16-bit value of pixel i: uniform blocks, blocks with one pixel off
\* the others, slopes and blocks of two levels.
Pattern11(base, kind, i) ==
  CASE kind = "uniform" -> base
    [] kind = "one"     -> IF i = 5 THEN base + 300 ELSE base
    [] kind = "slope"   -> base + (40 * i)
    [] kind = "halves"  -> IF i < 8 THEN base ELSE base + 517

\* A block of two channels: the second holds the pixels of the first in
\* the reverse order.
Block11(base, kind) ==
  [k \in 0..63 |->
     LET i == IF k < 32 THEN k \div 2 ELSE 15 - ((k - 32) \div 2)
         v == Pattern11(base, kind, i)
     IN  IF k % 2 = 0 THEN v \div 256 ELSE v % 256]

Inputs11 ==
  { [api |-> "encode11", pixels |-> Block11(base + (IF sg THEN 32768 - 900 ELSE 0), kind),
     pixOffset |-> off, signed |-> sg, alphaModifiers |-> m] :
      base \in {0, 150, 900, 2500}, kind \in {"uniform", "one", "slope", "halves"},
      off \in {0, 32}, sg \in BOOLEAN, m \in AlphaModifierTables }

InitEAC ==
  /\ call \in { [api |-> "encodeAlpha", pixels |-> b, alphaModifiers |-> m] :
                  b \in AlphaBlocks, m \in AlphaModifierTables }
              \cup Inputs11
  /\ pc = call.api
  /\ blockX = 0
  /\ blockY = 0
  /\ dec = <<>>
  /\ Idle

Encode11Call ==
  /\ pc = "encode11"
  /\ dec' = << encode11Bits(call.pixels, call.pixOffset, call.signed,
                            call.alphaModifiers) >>
  /\ pc' = "done"
  /\ UNCHANGED <<call, f, blockX, blockY, bufJ, buf, pixels, writes, nBlocks, ret, hdr>>

NextEAC == EncodeAlphaCall \/ Encode11Call

SpecEAC == InitEAC /\ [][NextEAC]_vars


EACDone == (pc = "done") /\ (call.api \in {"encodeAlpha", "encode11"})

\* The codeword returned, and the index the code's search gives pixel i.
CodeEAC == IF call.api = "encode11" THEN dec[1].code ELSE dec[1]

IndexEAC(i) ==
  IF call.api = "encode11"
  THEN Nearest11(call.pixels, call.pixOffset, i,
                 fill(dec[1].base, dec[1].mult, dec[1].table, call.signed,
                      call.alphaModifiers)).j
  ELSE BestIndex(AlphaAt(call.pixels, i), Bits64(dec[1], 56, 8), Bits64(dec[1], 48, 8),
                 call.alphaModifiers)

\* C26: the shifts of the sixteen pixels are the sixteen multiples of 3
\* from 0 to 45, each once, pixel (0,0) at 45 and the others in
\* column-major order below it; in the codewords of encodeAlpha and of
\* encode11 the 3-bit field at the shift of a pixel holds that pixel's
\* index, and bits 63..48 hold the base and the table, for encode11 the
\* base, the multiplier and the table, untouched by the indexes.
C26_IndexLayout ==
  /\ \A i \in 0..15 : AlphaShift(i) = 45 - (3 * ((4 * (i % 4)) + (i \div 4)))
  /\ { AlphaShift(i) : i \in 0..15 } = { 3 * n : n \in 0..15 }
  /\ EACDone =>
       /\ \A i \in 0..15 : Bits64(CodeEAC, 45 - (3 * ((4 * (i % 4)) + (i \div 4))), 3)
                             = IndexEAC(i)
       /\ (call.api = "encode11")
            => /\ Bits64(CodeEAC, 56, 8) = dec[1].base
               /\ Bits64(CodeEAC, 52, 4) = dec[1].mult
               /\ Bits64(CodeEAC, 48, 4) = dec[1].table

\* A codeword of encode11 in which two pixels of one row carry different,
\* non-zero indexes.
C26_Witness ==
  /\ EACDone
  /\ call.api = "encode11"
  /\ Bits64(CodeEAC, 45, 3) # 0
  /\ Bits64(CodeEAC, 33, 3) # 0
  /\ Bits64(CodeEAC, 45, 3) # Bits64(CodeEAC, 33, 3)

\* The loss of the k-th triple over all sixteen pixels.
FullLoss11(k) ==
  calculate11BlockLoss_Full(fill(Triple11(k).base, Triple11(k).mult, Triple11(k).table,
                                 call.signed, call.alphaModifiers),
                            call.pixels, call.pixOffset, maxUint64)

\* C27: the base, the multiplier and the table encode11 selects are those
\* of the first triple, in the order of its loops, whose loss over all
\* sixteen pixels is the least of all triples, and the index of each pixel
\* is the lowest index of a reconstruction value nearest to it.
C27_EarlyExitKeepsResult ==
  (EACDone /\ call.api = "encode11") =>
    LET full == [k \in 0..(Triples11 - 1) |-> FullLoss11(k)] @@ << >>
        first == CHOOSE k \in 0..(Triples11 - 1) :
                   \A m \in 0..(Triples11 - 1) :
                     (full[k] < full[m]) \/ ((full[k] = full[m]) /\ (k <= m))
        h == fill(dec[1].base, dec[1].mult, dec[1].table, call.signed,
                  call.alphaModifiers)
    IN  /\ [base |-> dec[1].base, mult |-> dec[1].mult, table |-> dec[1].table]
             = Triple11(first)
        /\ dec[1].loss = full[first]
        /\ \A k \in 0..(Triples11 - 1) : full[k] < maxUint64
        /\ \A i \in 0..15 :
             LET v == Value16(call.pixels, call.pixOffset, i)
                 j == Bits64(dec[1].code, AlphaShift(i), 3)
             IN  \A n \in 0..7 :
                   /\ (v - h[j]) * (v - h[j]) <= (v - h[n]) * (v - h[n])
                   /\ ((v - h[j]) * (v - h[j]) = (v - h[n]) * (v - h[n])) => (j <= n)

\* A block for which the triple selected is neither the first nor the
\* last of the loops, with a loss above zero.
C27_Witness ==
  /\ EACDone
  /\ call.api = "encode11"
  /\ dec[1].loss > 0
  /\ dec[1].base > 0
  /\ dec[1].table > 0
  /\ dec[1].base < MaxBase11



(***************************************************************************)
(* The specification of the loss accumulators: the sub-encoders and the    *)
(* driver on blocks of black and white, where the losses are largest.      *)
(***************************************************************************)
\* Blocks whose upper rows are of grey c and lower rows of grey d.
LossBlock(c, d, pattern) ==
  [k \in 0..63 |->
     IF k % 4 = 3 THEN (IF BelowThreshold(pattern, k \div 4) THEN 127 ELSE 128)
     ELSE IF k \div 32 = 0 THEN c ELSE d]

LossBlocks ==
  { LossBlock(c, d, pt) : c \in {0, 255}, d \in {0, 255}, pt \in {"none", "one", "checker"} }

\* Every site decodes to a flat black or a flat white block.
LossSubResults(fmt) ==
  { [site \in SitesOf(fmt) |->
       [code |-> <<lvl, SiteNumber(site), 0, 0>>, work |-> [k \in 0..63 |-> lvl]]] :
      lvl \in {0, 255} }

LossInputs ==
  UNION { { [api |-> "encodeColor", f |-> fmt, pixels |-> b, sub |-> s] :
              b \in LossBlocks, s \in LossSubResults(fmt) } : fmt \in ColorFormats }
  \cup
  { [api |-> "encodeRGBSansAlphaBlock", pixels |-> b, reduce |-> rd[1],
     formatIsETC1S |-> rd[2], modifiers |-> m] :
      b \in LossBlocks,
      rd \in { <<"reduceAverage", FALSE>>, <<"reduceQuantize", FALSE>>,
               <<"reduceAverage", TRUE>> },
      m \in ModifierTables }
  \cup
  { [api |-> "encodeRGBWithAlphaBlock", pixels |-> b, formatIsOneBitAlpha |-> TRUE,
     modifiers |-> m] : b \in LossBlocks, m \in ModifierTables }
  \cup
  { [api |-> a, pixels |-> b, cluster |-> << <<c, c, c>>, <<d, d, d>> >>,
     formatIsOneBitAlpha |-> ob, thModifiers |-> th] :
      a \in {"encodeTBlock", "encodeHBlock"}, b \in LossBlocks, c \in {0, 255},
      d \in {0, 255}, ob \in BOOLEAN, th \in ThModifierTables }
  \cup
  { [api |-> "encodeAlpha", pixels |-> b, alphaModifiers |-> m] :
      b \in AlphaBlocks, m \in AlphaModifierTables }

InitLoss ==
  /\ call \in LossInputs
  /\ pc = call.api
  /\ blockX = 0
  /\ blockY = 0
  /\ dec = <<>>
  /\ Idle

NextLoss ==
  \/ EncodeColorCall
  \/ EncodeRGBSansAlphaBlockCall
  \/ EncodeRGBWithAlphaBlockCall
  \/ EncodeTBlockCall
  \/ EncodeHBlockCall
  \/ EncodeAlphaCall

SpecLoss == InitLoss /\ [][NextLoss]_vars

\* Sixteen pixels, weights of 299, 587 and 114, differences of at most 255.
LossLimit == 16 * (299 + 587 + 114) * 255 * 255

\* The losses the call has accumulated: those it returns or compares, and
\* for the half-block search those of black and of white base colours.
LossesOf ==
  CASE call.api = "encodeColor" ->
         { dec[1].loss }
         \cup { calculateBlockLoss(call.pixels, call.sub[site].work,
                                   call.f = FormatETC2RGBA1) : site \in SitesOf(call.f) }
    [] call.api = "encodeRGBSansAlphaBlock" ->
         { dec[1].tried[k].loss : k \in 1..Len(dec[1].tried) }
         \cup { 2 * encodeHalfBlock(call.pixels, o, <<v, v, v>>, call.modifiers).loss :
                  o \in 0..3, v \in {0, 255} }
         \cup { 2 * encodeHalfBlock1(call.pixels, o, <<v, v, v>>, t, call.modifiers).loss :
                  o \in 0..3, v \in {0, 255}, t \in 0..7 }
    [] call.api = "encodeRGBWithAlphaBlock" ->
         { WithAlphaFlip(call.pixels, TRUE, flipBit, call.modifiers).err : flipBit \in 0..1 }
    [] call.api \in {"encodeTBlock", "encodeHBlock"} ->
         { dec[1].search.loss }
    [] call.api = "encodeAlpha" ->
         { AlphaSearch(call.pixels, call.alphaModifiers).bestSum }

\* C28: every loss accumulated for a block by calculateBlockLoss, by
\* encodeHalfBlock1 and encodeHalfBlock (twice a half-block's loss, and the
\* sum of the two halves), by calculateError59T, calculateError58H,
\* encodeRGBWithAlpha and encodeAlpha lies between 0 and 1,040,400,000,
\* below 2^31; the sentinel maxInt32 is therefore in none of the sums.
C28_LossesFitInt32 ==
  /\ LossLimit = 1040400000
  /\ LossLimit < maxInt32
  /\ (pc = "done") => \A loss \in LossesOf : (0 <= loss) /\ (loss <= LossLimit)

\* The driver on a black block that a candidate decodes to white: the
\* loss reaches the limit.
C28_Witness ==
  /\ pc = "done"
  /\ call.api = "encodeColor"
  /\ dec[1].loss = LossLimit

\* The H search under one-bit alpha, where one index of every pixel scores
\* maxInt32, ends with a loss above zero.
C28_WitnessSentinel ==
  /\ pc = "done"
  /\ call.api = "encodeHBlock"
  /\ call.formatIsOneBitAlpha
  /\ dec[1].search.loss > 0



(***************************************************************************)
(* The specification of Encode's output buffer: the loops of etc2.Encode   *)
(* taken one step at a time, so that every block iteration is a state.     *)
(***************************************************************************)
BufCalls ==
  { [api |-> "etc2.Encode", srcNil |-> FALSE, dstNil |-> FALSE,
     W |-> d[1], H |-> d[2], f |-> fmt, options |-> <<>>] :
       d \in { <<0, 0>>, <<0, 4>>, <<4, 0>>, <<1, 1>>, <<MaxSmallDim, 4>> },
       fmt \in { FormatETC1S, FormatETC2SRGB, FormatETC2RGBA8, FormatETC2R11Signed,
                 FormatETC2RG11Unsigned } }
  \cup
  { [api |-> "etc2.Encode", srcNil |-> FALSE, dstNil |-> FALSE,
     W |-> b[2], H |-> b[3], f |-> b[1], options |-> <<>>] : b \in BigInputs }

InitBuf ==
  /\ Init
  /\ call \in BufCalls

\* The steps that take an empty buffer of 8-byte codewords to its last
\* free slot.
SkipSteps == (encoderBufferSize \div 8) - 1

\* Encode's loops between two looks at the encoder: one step (a block
\* encoded into e.buf, the end of a row of blocks, or the end of the outer
\* loop) or, from an empty buffer, SkipSteps steps at once.
EncodeBlock ==
  /\ pc = "loop"
  /\ \E n \in (IF bufJ = 0 THEN {1, SkipSteps} ELSE {1}) :
     \E nx \in { RunLoop(f, call.W, call.H,
                         [blockX |-> blockX, blockY |-> blockY, bufJ |-> bufJ,
                          buf |-> buf, pixels |-> pixels, nBlocks |-> nBlocks,
                          at |-> "loop"], n) } :
       /\ blockX' = nx.blockX
       /\ blockY' = nx.blockY
       /\ bufJ' = nx.bufJ
       /\ buf' = nx.buf
       /\ pixels' = nx.pixels
       /\ nBlocks' = nx.nBlocks
       /\ IF nx.at = "panic"
          THEN Return("panic")
          ELSE pc' = nx.at /\ UNCHANGED ret
  /\ UNCHANGED <<call, f, writes, dec, hdr>>

NextBuf == Etc2Encode \/ EncodeBlock \/ Flush \/ Final

SpecBuf == InitBuf /\ [][NextBuf]_vars

\* The loop is about to run its body on the block at blockX, blockY.
AtBlockStart == (pc = "loop") /\ (blockY < call.H) /\ (blockX < call.W)

\* The buffer's discipline, with bufJ at most limit when a block iteration
\* starts.
BufferDiscipline(limit) ==
  /\ ret # "panic"
  /\ (pc \in {"loop", "flush", "final"}) =>
       /\ bufJ % BytesPerBlock(f) = 0
       /\ bufJ + (encoderBufferSize * Len(writes)) = nBlocks * BytesPerBlock(f)
       /\ (pc = "flush") => (bufJ = encoderBufferSize)
       /\ (pc # "flush") => (0 <= bufJ /\ bufJ < encoderBufferSize)
  /\ AtBlockStart => (0 <= bufJ /\ bufJ <= limit)
  /\ \A i \in 1..Len(writes) :
       /\ Len(writes[i].data) > 0
       /\ (i < Len(writes)) => (Len(writes[i].data) = encoderBufferSize)
  /\ ((pc = "done") /\ (call.W = 0) /\ (call.H = 0)) => (writes = <<>>)

\* C29: when a block iteration starts bufJ is a multiple of the bytes per
\* block of the format and lies between 0 and encoderBufferSize - 16, so
\* no codeword is stored past the end of the buffer; the buffer is flushed
\* exactly when bufJ reaches encoderBufferSize, which resets bufJ to 0;
\* no write is empty and a source of 0x0 pixels causes no write.
C29_BufferInvariant == BufferDiscipline(encoderBufferSize - 16)

\* C29 as the code has it: when a block iteration starts bufJ is at most
\* encoderBufferSize less the bytes per block of the format, which is
\* encoderBufferSize - 8 for the formats of 8 bytes per block.
C29_BufferInvariantPerFormat == BufferDiscipline(encoderBufferSize - BytesPerBlock(f))

\* A block iteration that starts with room for exactly one codeword of 8
\* bytes, after a flush has been made.
C29_Witness ==
  /\ AtBlockStart
  /\ BytesPerBlock(f) = 8
  /\ bufJ = encoderBufferSize - 8
  /\ Len(writes) > 0

\* A source of 0x0 pixels has been encoded.
C29_WitnessEmpty ==
  /\ pc = "done"
  /\ call.W = 0
  /\ call.H = 0
  /\ ret = "nil"



(***************************************************************************)
(* The specification of the three packings that force an overflow:         *)
(* encodeT, encodeH and encodePlanar.                                      *)
(***************************************************************************)
InitPatch ==
  /\ call \in TInputs \cup HInputs \cup PlanarInputs
  /\ pc = call.api
  /\ blockX = 0
  /\ blockY = 0
  /\ dec = <<>>
  /\ Idle

NextPatch == EncodeTCall \/ EncodeHCall \/ EncodePlanarCall

SpecPatch == InitPatch /\ [][NextPatch]_vars

\* The flag of bit 33 and the 32 pixel-index bits of a T or H codeword.
FlagAndIndexes(code) == << Bits64(code, 33, 1), Bits64(code, 16, 16), Bits64(code, 0, 16) >>

\* What a decoder reads from a T codeword: the two colours, the distance
\* index, the flag and the pixel indexes.
ReadT(code) ==
  << << (4 * Bits64(code, 59, 2)) + Bits64(code, 56, 2),
        Bits64(code, 52, 4), Bits64(code, 48, 4) >>,
     << Bits64(code, 44, 4), Bits64(code, 40, 4), Bits64(code, 36, 4) >>,
     (2 * Bits64(code, 34, 2)) + Bits64(code, 32, 1) >>
  \o FlagAndIndexes(code)

\* What a decoder reads from an H codeword; the low bit of the distance
\* index is the order of the two colours.
ReadH(code) ==
  << StoredH(code)[1], StoredH(code)[2],
     (4 * Bits64(code, 34, 1)) + (2 * Bits64(code, 32, 1))
       + (IF Packed444(StoredH(code)[1]) >= Packed444(StoredH(code)[2]) THEN 1 ELSE 0) >>
  \o FlagAndIndexes(code)

\* What a decoder reads from a Planar codeword: the colours of the origin,
\* of the horizontal and of the vertical corner, and the diff bit.
ReadPlanar(code) ==
  << << Bits64(code, 57, 6),
        (64 * Bits64(code, 56, 1)) + Bits64(code, 49, 6),
        (32 * Bits64(code, 48, 1)) + (8 * Bits64(code, 43, 2)) + Bits64(code, 39, 3) >>,
     << (2 * Bits64(code, 34, 5)) + Bits64(code, 32, 1),
        Bits64(code, 25, 7), Bits64(code, 19, 6) >>,
     << Bits64(code, 13, 6), Bits64(code, 6, 7), Bits64(code, 0, 6) >>,
     Bits64(code, 33, 1) >>

\* Either the three bits at lo + 3 are set and the bit at lo is clear, or
\* the reverse: one of the two patches that force an overflow.
OverflowPatch(code, lo) ==
  \/ (Bits64(code, lo + 3, 3) = 7) /\ (Bits64(code, lo, 1) = 0)
  \/ (Bits64(code, lo + 3, 3) = 0) /\ (Bits64(code, lo, 1) = 1)

\* C30: the patches of encodeT, encodeH and encodePlanar leave the payload
\* as it was packed: from the codeword returned a decoder reads the colours
\* (of 4 bits, or of 6, 7 and 6), the distance index, the flag of bit 33 and
\* the 32 pixel-index bits that went into the packing, and the bits outside
\* the payload (T: 63..61 and 58; H: 63, 55..53 and 50; Planar: 63, 55,
\* 47..45 and 42) hold nothing but the patches.
C30_PatchesKeepPayload ==
  (pc = "done") =>
    /\ (call.api = "encodeT") =>
         LET bc == SwapIf(call.swap, Cluster4(call.cluster))
         IN  /\ ReadT(dec[1])
                  = << << bc[1][1], bc[1][2], bc[1][3] >>, << bc[2][1], bc[2][2], bc[2][3] >>,
                       call.which, IF call.formatIsOneBitAlpha THEN 0 ELSE 1,
                       call.idxHi, call.idxLo >>
             /\ OverflowPatch(dec[1], 58)
    /\ (call.api = "encodeH") =>
         LET s == sort4BitColorsWithPixelIndexes(
                    SwapIf(call.swap, sort4BitColors(Cluster4(call.cluster))),
                    call.which, call.idxHi, call.idxLo)
         IN  /\ ReadH(dec[1])
                  = << << s.a[1][1], s.a[1][2], s.a[1][3] >>,
                       << s.a[2][1], s.a[2][2], s.a[2][3] >>,
                       call.which, IF call.formatIsOneBitAlpha THEN 0 ELSE 1,
                       s.idxHi, s.idxLo >>
             /\ Bits64(dec[1], 63, 1) = 1 - Bits64(dec[1], 62, 1)
             /\ OverflowPatch(dec[1], 50)
    /\ (call.api = "encodePlanar") =>
         /\ ReadPlanar(dec[1])
              = << << Quantize6(call.colorO[1]), Quantize7(call.colorO[2]),
                      Quantize6(call.colorO[3]) >>,
                   << Quantize6(call.colorH[1]), Quantize7(call.colorH[2]),
                      Quantize6(call.colorH[3]) >>,
                   << Quantize6(call.colorV[1]), Quantize7(call.colorV[2]),
                      Quantize6(call.colorV[3]) >>,
                   1 >>
         /\ Bits64(dec[1], 63, 1) = 1 - Bits64(dec[1], 62, 1)
         /\ Bits64(dec[1], 55, 1) = 1 - Bits64(dec[1], 54, 1)
         /\ OverflowPatch(dec[1], 42)

\* An H codeword patched with the three bits 55..53 next to a first green
\* whose low bit, bit 52, is clear.
C30_Witness ==
  /\ pc = "done"
  /\ call.api = "encodeH"
  /\ Bits64(dec[1], 53, 3) = 7
  /\ Bits64(dec[1], 52, 1) = 0
  /\ Bits64(dec[1], 63, 1) = 1

\* A T codeword patched with bit 58 between the two halves of the first
\* red, both non-zero.
C30_WitnessT ==
  /\ pc = "done"
  /\ call.api = "encodeT"
  /\ Bits64(dec[1], 58, 1) = 1
  /\ Bits64(dec[1], 59, 2) # 0
  /\ Bits64(dec[1], 56, 2) # 0

\* A Planar codeword patched with bits 63, 55 and 42.
C30_WitnessPlanar ==
  /\ pc = "done"
  /\ call.api = "encodePlanar"
  /\ Bits64(dec[1], 63, 1) = 1
  /\ Bits64(dec[1], 55, 1) = 1
  /\ Bits64(dec[1], 42, 1) = 1

=============================================================================
